---- MODULE Spec2Model ----
(***************************************************************************)
(* Booking marketplace API (jobs, proposals, reviews, artist rating).      *)
(* The document store is modelled as the variables jobs, proposals,        *)
(* reviews and rating, with profile (the other fields of the artists' user *)
(* documents) and notes (the notification documents); login holds the     *)
(* login tracking fields of one user document, rateLimitStore the map of   *)
(* the authentication rate limiter, clock the time.  Every request         *)
(* handler is a sequence of steps, one per awaited database call; reqs     *)
(* holds the request-scoped state of the handlers in flight (one slot per  *)
(* concurrent request); resp is the response most recently sent.           *)
(***************************************************************************)
EXTENDS Integers, Sequences, FiniteSets, TLC

VARIABLES jobs, proposals, reviews, rating, profile, notes, login, clock,
          rateLimitStore, reqs, resp

vars == <<jobs, proposals, reviews, rating, profile, notes, login, clock,
          rateLimitStore, reqs, resp>>
reviewVars == <<reviews, rating>>
authVars == <<login, clock, rateLimitStore>>
userVars == <<profile, notes, authVars>>

\* ------------------------------------------------------------------ bounds
MaxJobs == 2
MaxBidJobs == 1
MaxProposals == 2
MaxInFlight == 2
MaxReviews == 2
MaxFlags == 1
MaxViews == 2
MaxStamps == 2
MaxImages == 3

\* ------------------------------------------------------------- principals
Clients == {"c1", "c2"}
Artists == {"a1", "a2"}
Users == Clients \cup Artists
NoUser == "none"
NoId == 0

Slots == 1..MaxInFlight
JobIds == 1..MaxJobs
ProposalIds == 1..MaxProposals

\* Bid content carried by a submit or update request body.
Bids == {1, 2}

\* clientResponse.message values: unset, the text a client typed, and the
\* text the cascade writes.
NoMessage == ""
ClientMessage == "client message"
AutoMessage == "Another proposal was selected"

\* ------------------------------------------------------------ job bodies
\* A job create/update request body: the lifecycle fields it carries.
\* "keep" / -1 mean the field is absent from the body.
Keep == "keep"
KeepId == -1
KeepMax == -1
KeepAmount == -1
\* applications.maxApplications: { default: 10 }
DefaultMaxApplications == 10
\* A budget that passes createJobValidation, in units of 50 pounds: every
\* create body carries one, and budgetMin / budgetMax replace its bounds.
ValidMin == 1
ValidMax == 2
JobBodies ==
  << [status |-> Keep, assignedArtist |-> Keep, selectedProposal |-> KeepId,
      maxApplications |-> KeepMax, budgetMin |-> KeepAmount, budgetMax |-> KeepAmount],
     [status |-> "completed", assignedArtist |-> Keep, selectedProposal |-> KeepId,
      maxApplications |-> KeepMax, budgetMin |-> KeepAmount, budgetMax |-> KeepAmount],
     [status |-> "completed", assignedArtist |-> "a1", selectedProposal |-> KeepId,
      maxApplications |-> KeepMax, budgetMin |-> KeepAmount, budgetMax |-> KeepAmount],
     [status |-> "cancelled", assignedArtist |-> Keep, selectedProposal |-> KeepId,
      maxApplications |-> KeepMax, budgetMin |-> KeepAmount, budgetMax |-> KeepAmount],
     [status |-> Keep, assignedArtist |-> Keep, selectedProposal |-> KeepId,
      maxApplications |-> 1, budgetMin |-> KeepAmount, budgetMax |-> KeepAmount],
     [status |-> Keep, assignedArtist |-> Keep, selectedProposal |-> KeepId,
      maxApplications |-> KeepMax, budgetMin |-> 2, budgetMax |-> 1],
     [status |-> Keep, assignedArtist |-> Keep, selectedProposal |-> KeepId,
      maxApplications |-> KeepMax, budgetMin |-> 3, budgetMax |-> KeepAmount] >>
JobBodyIds == 1..Len(JobBodies)

\* ------------------------------------------------------------ responses
\* The error kinds of the API, by HTTP status and message.
OK == "OK"
Forbidden == "Forbidden"          \* 403
InvalidState == "InvalidState"    \* 400 'no longer accepting' / 'already been reviewed'
Conflict == "Conflict"            \* 400 'You have already submitted a proposal for this job'
NotFound == "NotFound"            \* 404
ServerError == "ServerError"      \* 500 from the handler's catch block
Validation == "Validation"        \* 400 'Validation errors'

\* Request-scoped state: the operation, the step it is at, the principal,
\* the ids and body of the request, and what the handler has read so far
\* (artist: an artist id; sum, cnt: the result of the rating aggregation;
\* seen: the status of the job document a read loaded).
Idle == [op |-> "none", pc |-> "idle", caller |-> NoUser, jid |-> NoId,
         pid |-> NoId, body |-> 0, artist |-> NoUser, sum |-> 0, cnt |-> 0,
         seen |-> "none"]
\* A response: the operation answered, its principal and ids, the result,
\* and for a job read the status of the job in the response body.
Response(op, caller, jid, pid, res) ==
  [op |-> op, caller |-> caller, jid |-> jid, pid |-> pid, res |-> res,
   shown |-> "none"]
NoResponse == Response("none", NoUser, NoId, NoId, "")

\* ------------------------------------------------------------ the store
JobExists(j) == j \in 1..Len(jobs) /\ ~jobs[j].deleted
ProposalExists(p) == p \in 1..Len(proposals)
ProposalsOf(j) == {p \in 1..Len(proposals) : proposals[p].job = j}

\* ---------------------------------------------------------- request slots
Free(s) == reqs[s].pc = "idle"
CanStart(s) == Free(s) /\ \A t \in Slots : t < s => ~Free(t)
InFlight(ops) == {s \in Slots : ~Free(s) /\ reqs[s].op \in ops}

\* The handler's first awaited call returned and it goes on to the step pc.
Begin(s, op, caller, jid, pid, body, pc) ==
  /\ reqs' = [reqs EXCEPT ![s] = [Idle EXCEPT !.op = op, !.pc = pc, !.caller = caller,
                                               !.jid = jid, !.pid = pid, !.body = body]]
  /\ UNCHANGED resp
\* The handler answers before its second awaited call.
Answer(s, op, caller, jid, pid, res) ==
  /\ resp' = Response(op, caller, jid, pid, res)
  /\ UNCHANGED reqs
Goto(s, pc) ==
  /\ reqs' = [reqs EXCEPT ![s].pc = pc]
  /\ UNCHANGED resp
\* res.status(...).json(...): the handler in slot s answers and ends.
Finish(s, res) ==
  /\ resp' = Response(reqs[s].op, reqs[s].caller, reqs[s].jid, reqs[s].pid, res)
  /\ reqs' = [reqs EXCEPT ![s] = Idle]

\* ------------------------------------------------------------------- users
\* The fields of an artist's user document beside the rating: isActive and
\* the fields an update may set, here artistProfile.businessName,
\* artistProfile.experience and bio.
NoName == "unset"
NewProfile == [isActive |-> TRUE, businessName |-> NoName, experience |-> 0, bio |-> NoName]

\* userSchema: loginAttempts (default 0) and lockUntil (unset) of the account
\* the logins are made to.
NoLock == 0
NewLogin == [loginAttempts |-> 0, lockUntil |-> NoLock]
\* req.ip of the callers of the authentication routes, and the rate limit
\* store before any of them was counted.
IPs == {"ip1", "ip2"}
NoEntry == [count |-> 0, firstAttempt |-> 0]
InitAuth ==
  /\ login = NewLogin
  /\ clock = 1
  /\ rateLimitStore = [ip \in IPs |-> NoEntry]

\* ------------------------------------------------------------------- Init
Init ==
  /\ InitAuth
  /\ jobs = << >>
  /\ proposals = << >>
  /\ reviews = << >>
  /\ rating = [a \in Artists |-> [average |-> 0, count |-> 0]]
  /\ profile = [a \in Artists |-> NewProfile]
  /\ notes = {}
  /\ reqs = [s \in Slots |-> Idle]
  /\ resp = NoResponse

\* ------------------------------------------------------------ POST /jobs
\* budget.min and budget.max of a create body.
BodyBudget(b) ==
  [min |-> IF JobBodies[b].budgetMin = KeepAmount THEN ValidMin ELSE JobBodies[b].budgetMin,
   max |-> IF JobBodies[b].budgetMax = KeepAmount THEN ValidMax ELSE JobBodies[b].budgetMax]

NewJob(c, b) ==
  [client |-> c,
   status |-> IF JobBodies[b].status = Keep THEN "open" ELSE JobBodies[b].status,
   accepting |-> TRUE,
   received |-> << >>,
   assignedArtist |-> IF JobBodies[b].assignedArtist = Keep THEN NoUser
                      ELSE JobBodies[b].assignedArtist,
   selectedProposal |-> IF JobBodies[b].selectedProposal = KeepId THEN NoId
                        ELSE JobBodies[b].selectedProposal,
   maxApplications |-> IF JobBodies[b].maxApplications = KeepMax
                       THEN DefaultMaxApplications
                       ELSE JobBodies[b].maxApplications,
   budget |-> BodyBudget(b),
   phase |-> "early",
   views |-> 0,
   viewedBy |-> {},
   deleted |-> FALSE]

\* Notification.notifyArtistsOfNewJob: one notification per active artist.
NewJobNotes(j) == {[recipient |-> a, job |-> j] : a \in {x \in Artists : profile[x].isActive}}

\* A faulty creation that lets the throw of the fan-out reach the route's
\* catch block: the fault the property of C24 detects.
C24_FanOutThrows(sent) == IF sent THEN OK ELSE ServerError

\* The answer of a creation whose fan-out succeeded or threw: the throw is
\* caught and logged.
FanOutAnswer(sent) == OK

\* authorize('client'), createJobValidation, Job.create, then the fan-out,
\* which inserts the notifications (sent) or throws.
CreateJobNotify(s, u, b, sent) ==
  /\ CanStart(s)
  /\ UNCHANGED <<reviewVars, profile, authVars>>
  /\ Len(jobs) < MaxJobs
  /\ IF u \notin Clients
     THEN /\ Answer(s, "createJob", u, NoId, NoId, Forbidden)
          /\ UNCHANGED <<jobs, proposals, notes>>
     ELSE IF BodyBudget(b).max <= BodyBudget(b).min
     THEN /\ Answer(s, "createJob", u, NoId, NoId, Validation)
          /\ UNCHANGED <<jobs, proposals, notes>>
     ELSE /\ jobs' = Append(jobs, NewJob(u, b))
          /\ notes' = IF sent THEN notes \cup NewJobNotes(Len(jobs) + 1) ELSE notes
          /\ Answer(s, "createJob", u, Len(jobs) + 1, NoId, FanOutAnswer(sent))
          /\ UNCHANGED proposals

CreateJob(s, u, b) == CreateJobNotify(s, u, b, TRUE)

\* A faulty submit route, without the check of the job's status: the fault
\* the property of C14 detects.
C14_SubmitReadJobNoGate(s, u, j, bid) ==
  /\ CanStart(s)
  /\ UNCHANGED <<reviewVars, userVars>>
  /\ Len(proposals) + Cardinality(InFlight({"submit"})) < MaxProposals
  /\ UNCHANGED <<jobs, proposals>>
  /\ IF u \notin Artists
     THEN Answer(s, "submit", u, j, NoId, Forbidden)
     ELSE IF ~JobExists(j)
     THEN Answer(s, "submit", u, j, NoId, NotFound)
     ELSE Begin(s, "submit", u, j, NoId, bid, "findExisting")

\* ------------------------------------------------------- POST /proposals
SubmitReadJob(s, u, j, bid) ==
  /\ CanStart(s)
  /\ UNCHANGED <<reviewVars, userVars>>
  /\ Len(proposals) + Cardinality(InFlight({"submit"})) < MaxProposals
  /\ UNCHANGED <<jobs, proposals>>
  /\ IF u \notin Artists
     THEN Answer(s, "submit", u, j, NoId, Forbidden)
     ELSE IF ~JobExists(j)
     THEN Answer(s, "submit", u, j, NoId, NotFound)
     ELSE IF jobs[j].status # "open" \/ ~jobs[j].accepting
     THEN Answer(s, "submit", u, j, NoId, InvalidState)
     ELSE Begin(s, "submit", u, j, NoId, bid, "findExisting")

SubmitFindExisting(s) ==
  /\ reqs[s].op = "submit" /\ reqs[s].pc = "findExisting"
  /\ UNCHANGED <<reviewVars, userVars>>
  /\ UNCHANGED <<jobs, proposals>>
  /\ IF \E p \in ProposalsOf(reqs[s].jid) : proposals[p].artist = reqs[s].caller
     THEN Finish(s, Conflict)
     ELSE Goto(s, "save")

NewProposal(j, a, bid) ==
  [job |-> j, artist |-> a, status |-> "pending", content |-> bid,
   respBy |-> NoUser, respMsg |-> NoMessage]

\* The unique index on (job, artist) makes the insert fail with a duplicate
\* key error, which the handler's catch block answers with 500.
SubmitSave(s) ==
  /\ reqs[s].op = "submit" /\ reqs[s].pc = "save"
  /\ UNCHANGED <<reviewVars, userVars>>
  /\ UNCHANGED jobs
  /\ IF \E p \in ProposalsOf(reqs[s].jid) : proposals[p].artist = reqs[s].caller
     THEN /\ Finish(s, ServerError)
          /\ UNCHANGED proposals
     ELSE /\ proposals' = Append(proposals,
                 NewProposal(reqs[s].jid, reqs[s].caller, reqs[s].body))
          /\ reqs' = [reqs EXCEPT ![s].pc = "jobSave", ![s].pid = Len(proposals) + 1]
          /\ UNCHANGED resp

\* The job's dates against the clock: "early" is before the application
\* deadline, "closing" between the deadline and the event, "past" after the
\* event date.
EventPassed(job) == job.phase = "past"
DeadlinePassed(job) == job.phase \in {"closing", "past"}

\* Time passes for job j.
TimePasses(j) ==
  /\ JobExists(j)
  /\ jobs[j].phase # "past"
  /\ jobs' = [jobs EXCEPT ![j].phase = IF @ = "early" THEN "closing" ELSE "past"]
  /\ UNCHANGED <<proposals, reviews, rating, userVars, reqs, resp>>

\* jobSchema.pre('save') on a document loaded with the status loaded: the
\* status to write, if the hook modifies it.
PreSaveStatus(job, loaded) ==
  IF EventPassed(job) /\ loaded = "open" THEN "expired" ELSE loaded

\* job.save() sends the push on the received list, and the status when the
\* pre-save hook expired the document the handler loaded (as open); it
\* fails when the job document is gone or the database rejects the write.
SubmitJobSave(s, ok) ==
  /\ reqs[s].op = "submit" /\ reqs[s].pc = "jobSave"
  /\ UNCHANGED <<reviewVars, userVars>>
  /\ UNCHANGED proposals
  /\ IF JobExists(reqs[s].jid) /\ ok
     THEN /\ jobs' = [jobs EXCEPT
                       ![reqs[s].jid].received = Append(@, reqs[s].pid),
                       ![reqs[s].jid].status =
                          IF PreSaveStatus(jobs[reqs[s].jid], "open") = "open"
                          THEN @ ELSE "expired"]
          /\ Finish(s, OK)
     ELSE /\ Finish(s, ServerError)
          /\ UNCHANGED jobs

\* ------------------------------------------- PUT /proposals/:id/accept
AcceptRead(s, u, p) ==
  /\ CanStart(s)
  /\ UNCHANGED <<reviewVars, userVars>>
  /\ UNCHANGED <<jobs, proposals>>
  /\ IF u \notin Clients
     THEN Answer(s, "accept", u, NoId, p, Forbidden)
     ELSE IF ~ProposalExists(p)
     THEN Answer(s, "accept", u, NoId, p, NotFound)
     ELSE IF ~JobExists(proposals[p].job)
     THEN Answer(s, "accept", u, proposals[p].job, p, ServerError)
     ELSE IF jobs[proposals[p].job].client # u
     THEN Answer(s, "accept", u, proposals[p].job, p, Forbidden)
     ELSE IF proposals[p].status # "pending"
     THEN Answer(s, "accept", u, proposals[p].job, p, InvalidState)
     ELSE Begin(s, "accept", u, proposals[p].job, p, 0, "rejectOthers")

\* A faulty cascade that rejects only the pending proposals: the fault the
\* property of C30 detects.
C30_RejectPendingSiblings(j, p, c) ==
  [q \in 1..Len(proposals) |->
     IF proposals[q].job = j /\ q # p /\ proposals[q].status = "pending"
     THEN [proposals[q] EXCEPT !.status = "rejected", !.respMsg = AutoMessage,
                               !.respBy = c]
     ELSE proposals[q]]

\* proposalSchema.methods.accept, first write: updateMany on the siblings,
\* not filtered by their status.
RejectSiblings(j, p, c) ==
  [q \in 1..Len(proposals) |->
     IF proposals[q].job = j /\ q # p
     THEN [proposals[q] EXCEPT !.status = "rejected", !.respMsg = AutoMessage,
                               !.respBy = c]
     ELSE proposals[q]]

AcceptRejectOthers(s) ==
  /\ reqs[s].op = "accept" /\ reqs[s].pc = "rejectOthers"
  /\ UNCHANGED <<reviewVars, userVars>>
  /\ proposals' = RejectSiblings(reqs[s].jid, reqs[s].pid, reqs[s].caller)
  /\ Goto(s, "save")
  /\ UNCHANGED jobs

\* proposalSchema.methods.accept, second write: this.save() of the
\* modified paths status and clientResponse.
AcceptSave(s) ==
  /\ reqs[s].op = "accept" /\ reqs[s].pc = "save"
  /\ UNCHANGED <<reviewVars, userVars>>
  /\ proposals' = [proposals EXCEPT ![reqs[s].pid].status = "accepted",
                                    ![reqs[s].pid].respBy = reqs[s].caller]
  /\ Goto(s, "jobSave")
  /\ UNCHANGED jobs

AssignedJob(job, a, p) ==
  [job EXCEPT !.assignedArtist = a, !.selectedProposal = p, !.status = "assigned"]

\* Job.findById then job.save(): the handler throws when the job is gone
\* or the save is rejected, and answers 500 with the proposal writes kept.
AcceptJobSave(s, ok) ==
  /\ reqs[s].op = "accept" /\ reqs[s].pc = "jobSave"
  /\ UNCHANGED <<reviewVars, userVars>>
  /\ UNCHANGED proposals
  /\ IF JobExists(reqs[s].jid) /\ ok
     THEN /\ jobs' = [jobs EXCEPT ![reqs[s].jid] =
                        AssignedJob(@, proposals[reqs[s].pid].artist, reqs[s].pid)]
          /\ Finish(s, OK)
     ELSE /\ Finish(s, ServerError)
          /\ UNCHANGED jobs

\* --------------------------------------------------- PUT /proposals/:id
UpdateRead(s, u, p, bid) ==
  /\ CanStart(s)
  /\ UNCHANGED <<reviewVars, userVars>>
  /\ UNCHANGED <<jobs, proposals>>
  /\ IF u \notin Artists
     THEN Answer(s, "update", u, NoId, p, Forbidden)
     ELSE IF ~ProposalExists(p)
     THEN Answer(s, "update", u, NoId, p, NotFound)
     ELSE IF proposals[p].artist # u
     THEN Answer(s, "update", u, proposals[p].job, p, Forbidden)
     ELSE IF proposals[p].status # "pending"
     THEN Answer(s, "update", u, proposals[p].job, p, InvalidState)
     ELSE Begin(s, "update", u, proposals[p].job, p, bid, "save")

\* proposal.save() of the modified paths: the bid content, not the status.
UpdateSave(s) ==
  /\ reqs[s].op = "update" /\ reqs[s].pc = "save"
  /\ UNCHANGED <<reviewVars, userVars>>
  /\ proposals' = [proposals EXCEPT ![reqs[s].pid].content = reqs[s].body]
  /\ Finish(s, OK)
  /\ UNCHANGED jobs

\* -------------------------------------------- PUT /proposals/:id/reject
MessageOf(m) == IF m = 0 THEN NoMessage ELSE ClientMessage

RejectRead(s, u, p, m) ==
  /\ CanStart(s)
  /\ UNCHANGED <<reviewVars, userVars>>
  /\ UNCHANGED <<jobs, proposals>>
  /\ IF u \notin Clients
     THEN Answer(s, "reject", u, NoId, p, Forbidden)
     ELSE IF ~ProposalExists(p)
     THEN Answer(s, "reject", u, NoId, p, NotFound)
     ELSE IF ~JobExists(proposals[p].job)
     THEN Answer(s, "reject", u, proposals[p].job, p, ServerError)
     ELSE IF jobs[proposals[p].job].client # u
     THEN Answer(s, "reject", u, proposals[p].job, p, Forbidden)
     ELSE IF proposals[p].status # "pending"
     THEN Answer(s, "reject", u, proposals[p].job, p, InvalidState)
     ELSE Begin(s, "reject", u, proposals[p].job, p, m, "save")

\* proposalSchema.methods.reject
RejectSave(s) ==
  /\ reqs[s].op = "reject" /\ reqs[s].pc = "save"
  /\ UNCHANGED <<reviewVars, userVars>>
  /\ proposals' = [proposals EXCEPT ![reqs[s].pid].status = "rejected",
                                    ![reqs[s].pid].respMsg = MessageOf(reqs[s].body),
                                    ![reqs[s].pid].respBy = reqs[s].caller]
  /\ Finish(s, OK)
  /\ UNCHANGED jobs

\* ------------------------------------------ PUT /proposals/:id/withdraw
WithdrawRead(s, u, p) ==
  /\ CanStart(s)
  /\ UNCHANGED <<reviewVars, userVars>>
  /\ UNCHANGED <<jobs, proposals>>
  /\ IF u \notin Artists
     THEN Answer(s, "withdraw", u, NoId, p, Forbidden)
     ELSE IF ~ProposalExists(p)
     THEN Answer(s, "withdraw", u, NoId, p, NotFound)
     ELSE IF proposals[p].artist # u
     THEN Answer(s, "withdraw", u, proposals[p].job, p, Forbidden)
     ELSE IF proposals[p].status # "pending"
     THEN Answer(s, "withdraw", u, proposals[p].job, p, InvalidState)
     ELSE Begin(s, "withdraw", u, proposals[p].job, p, 0, "save")

\* A faulty withdraw that also takes the proposal off the job's list of
\* received proposals: the fault the property of C31 detects.
C31_WithdrawSaveReleasesJob(s) ==
  /\ reqs[s].op = "withdraw" /\ reqs[s].pc = "save"
  /\ UNCHANGED <<reviewVars, userVars>>
  /\ proposals' = [proposals EXCEPT ![reqs[s].pid].status = "withdrawn"]
  /\ jobs' = [jobs EXCEPT ![reqs[s].jid].received =
                 SelectSeq(@, LAMBDA x : x # reqs[s].pid)]
  /\ Finish(s, OK)

WithdrawSave(s) ==
  /\ reqs[s].op = "withdraw" /\ reqs[s].pc = "save"
  /\ UNCHANGED <<reviewVars, userVars>>
  /\ proposals' = [proposals EXCEPT ![reqs[s].pid].status = "withdrawn"]
  /\ Finish(s, OK)
  /\ UNCHANGED jobs

\* A faulty access check made of the middleware alone, which lets the
\* assigned artist through: the fault the property of C35 detects.
C35_JobAccessMiddlewareOnly(u, j) ==
  IF ~JobExists(j) THEN NotFound
  ELSE IF jobs[j].client # u /\ jobs[j].assignedArtist # u THEN Forbidden
  ELSE OK

\* ----------------------------------------------------- checkJobAccess
\* The middleware of the job routes, followed by the route's own owner
\* check: the assigned artist passes the middleware and is refused by the
\* route, with the same status 403.
JobAccess(u, j) ==
  IF ~JobExists(j) THEN NotFound
  ELSE IF jobs[j].client # u /\ jobs[j].assignedArtist # u THEN Forbidden
  ELSE IF jobs[j].client # u THEN Forbidden
  ELSE OK

\* ------------------------------------------------ PUT /jobs/:id/assign
AssignCheckAccess(s, u, j, p) ==
  /\ CanStart(s)
  /\ UNCHANGED <<reviewVars, userVars>>
  /\ UNCHANGED <<jobs, proposals>>
  /\ IF JobAccess(u, j) # OK
     THEN Answer(s, "assign", u, j, p, JobAccess(u, j))
     ELSE Begin(s, "assign", u, j, p, 0, "findProposal")

AssignFindProposal(s) ==
  /\ reqs[s].op = "assign" /\ reqs[s].pc = "findProposal"
  /\ UNCHANGED <<reviewVars, userVars>>
  /\ UNCHANGED <<jobs, proposals>>
  /\ IF ~ProposalExists(reqs[s].pid)
     THEN Finish(s, NotFound)
     ELSE Goto(s, "jobUpdate")

\* Job.findByIdAndUpdate: a job deleted in the meantime matches nothing and
\* the handler goes on.
AssignJobUpdate(s) ==
  /\ reqs[s].op = "assign" /\ reqs[s].pc = "jobUpdate"
  /\ UNCHANGED <<reviewVars, userVars>>
  /\ jobs' = IF JobExists(reqs[s].jid)
             THEN [jobs EXCEPT ![reqs[s].jid] =
                     [AssignedJob(@, proposals[reqs[s].pid].artist, reqs[s].pid)
                        EXCEPT !.accepting = FALSE]]
             ELSE jobs
  /\ Goto(s, "proposalUpdate")
  /\ UNCHANGED proposals

AssignProposalUpdate(s) ==
  /\ reqs[s].op = "assign" /\ reqs[s].pc = "proposalUpdate"
  /\ UNCHANGED <<reviewVars, userVars>>
  /\ proposals' = [proposals EXCEPT ![reqs[s].pid].status = "accepted"]
  /\ Goto(s, "declineOthers")
  /\ UNCHANGED jobs

\* Proposal.updateMany on the other proposals of the job in the URL.
DeclineOthers(j, p) ==
  [q \in 1..Len(proposals) |->
     IF proposals[q].job = j /\ q # p
     THEN [proposals[q] EXCEPT !.status = "declined"]
     ELSE proposals[q]]

AssignDeclineOthers(s) ==
  /\ reqs[s].op = "assign" /\ reqs[s].pc = "declineOthers"
  /\ UNCHANGED <<reviewVars, userVars>>
  /\ proposals' = DeclineOthers(reqs[s].jid, reqs[s].pid)
  /\ Finish(s, OK)
  /\ UNCHANGED jobs

\* ------------------------------------------------------- PUT /jobs/:id
UpdateJobCheckAccess(s, u, j, b) ==
  /\ CanStart(s)
  /\ UNCHANGED <<reviewVars, userVars>>
  /\ UNCHANGED <<jobs, proposals>>
  /\ IF JobAccess(u, j) # OK
     THEN Answer(s, "updateJob", u, j, NoId, JobAccess(u, j))
     ELSE Begin(s, "updateJob", u, j, NoId, b, "write")

\* Job.findByIdAndUpdate(id, req.body): every field of the body is set.
UpdatedJob(job, b) ==
  [job EXCEPT
     !.status = IF JobBodies[b].status = Keep THEN @ ELSE JobBodies[b].status,
     !.assignedArtist = IF JobBodies[b].assignedArtist = Keep THEN @
                        ELSE JobBodies[b].assignedArtist,
     !.selectedProposal = IF JobBodies[b].selectedProposal = KeepId THEN @
                          ELSE JobBodies[b].selectedProposal,
     !.maxApplications = IF JobBodies[b].maxApplications = KeepMax THEN @
                         ELSE JobBodies[b].maxApplications,
     !.budget.min = IF JobBodies[b].budgetMin = KeepAmount THEN @
                    ELSE JobBodies[b].budgetMin]

\* runValidators: the validators of the paths in the update run.  The one of
\* budget.max reads this.budget.min, and this is not the document in an
\* update: it throws, which fails the validation.
UpdateRejected(b) == JobBodies[b].budgetMax # KeepAmount

UpdateJobWrite(s) ==
  /\ reqs[s].op = "updateJob" /\ reqs[s].pc = "write"
  /\ UNCHANGED <<reviewVars, userVars>>
  /\ UNCHANGED proposals
  /\ IF UpdateRejected(reqs[s].body)
     THEN /\ Finish(s, ServerError)
          /\ UNCHANGED jobs
     ELSE /\ jobs' = IF JobExists(reqs[s].jid)
                     THEN [jobs EXCEPT ![reqs[s].jid] = UpdatedJob(@, reqs[s].body)]
                     ELSE jobs
          /\ Finish(s, OK)

\* ---------------------------------------------------- DELETE /jobs/:id
DeleteJobCheckAccess(s, u, j) ==
  /\ CanStart(s)
  /\ UNCHANGED <<reviewVars, userVars>>
  /\ UNCHANGED <<jobs, proposals>>
  /\ IF JobAccess(u, j) # OK
     THEN Answer(s, "deleteJob", u, j, NoId, JobAccess(u, j))
     ELSE Begin(s, "deleteJob", u, j, NoId, 0, "write")

DeleteJobWrite(s) ==
  /\ reqs[s].op = "deleteJob" /\ reqs[s].pc = "write"
  /\ UNCHANGED <<reviewVars, userVars>>
  /\ jobs' = IF JobExists(reqs[s].jid)
             THEN [jobs EXCEPT ![reqs[s].jid].deleted = TRUE]
             ELSE jobs
  /\ Finish(s, OK)
  /\ UNCHANGED proposals

\* ------------------------------------------------------------ user routes
\* The request bodies of the user updates, as the fields they carry; the
\* second carries rating.average, rating.count and isActive as well.
UserBodies ==
  << [businessName |-> "studio", bio |-> "hello"],
     [businessName |-> "studio", experience |-> 3, bio |-> "hello",
      average |-> 10, count |-> 9, isActive |-> TRUE] >>
UserBodyIds == 1..Len(UserBodies)

\* An artist's user document: the profile fields and the rating.
UserDoc(a) ==
  [isActive |-> profile[a].isActive, businessName |-> profile[a].businessName,
   experience |-> profile[a].experience, bio |-> profile[a].bio,
   average |-> rating[a].average, count |-> rating[a].count]

\* $set: the fields F of the document take the values of the body.
SetFields(doc, F, body) ==
  [p \in DOMAIN doc |-> IF p \in F THEN body[p] ELSE doc[p]]

\* User.findByIdAndUpdate writes the document of user u.
WriteUser(u, doc) ==
  /\ profile' = [profile EXCEPT ![u] =
        [isActive |-> doc.isActive, businessName |-> doc.businessName,
         experience |-> doc.experience, bio |-> doc.bio]]
  /\ rating' = [rating EXCEPT ![u] = [average |-> doc.average, count |-> doc.count]]

\* A faulty profile update that sets every field of the body: the fault the
\* property of C23 detects.
C23_EveryBodyField(body) == DOMAIN body

\* updateArtistProfile: updateFields holds the artistProfile fields present
\* in the body.
ArtistProfileFields(body) == {"businessName", "experience"} \cap DOMAIN body

\* PUT /api/auth/artist-profile
UpdateArtistProfile(s, u, b) ==
  /\ CanStart(s)
  /\ UNCHANGED <<jobs, proposals, reviews, notes, authVars>>
  /\ IF u \notin Artists
     THEN /\ Answer(s, "updateArtistProfile", u, NoId, NoId, Forbidden)
          /\ UNCHANGED <<profile, rating>>
     ELSE /\ WriteUser(u, SetFields(UserDoc(u), ArtistProfileFields(UserBodies[b]),
                                    UserBodies[b]))
          /\ Answer(s, "updateArtistProfile", u, NoId, NoId, OK)

\* updateDetails: fieldsToUpdate holds firstName, lastName, phone, location
\* and bio, those present in the body.
DetailsFields(body) == {"firstName", "lastName", "phone", "location", "bio"} \cap DOMAIN body

\* PUT /api/auth/updatedetails
UpdateDetails(s, u, b) ==
  /\ CanStart(s)
  /\ UNCHANGED <<jobs, proposals, reviews, notes, authVars>>
  /\ IF u \in Artists
     THEN WriteUser(u, SetFields(UserDoc(u), DetailsFields(UserBodies[b]), UserBodies[b]))
     ELSE UNCHANGED <<profile, rating>>
  /\ Answer(s, "updateDetails", u, NoId, NoId, OK)

\* PUT /api/auth/deactivate: { isActive: false }
DeactivateAccount(s, u) ==
  /\ CanStart(s)
  /\ UNCHANGED <<jobs, proposals, reviews, notes, authVars>>
  /\ IF u \in Artists
     THEN WriteUser(u, [UserDoc(u) EXCEPT !.isActive = FALSE])
     ELSE UNCHANGED <<profile, rating>>
  /\ Answer(s, "deactivate", u, NoId, NoId, OK)

\* ------------------------------------------------------- GET /jobs/:id
\* optionalAuth: the caller may be anonymous (NoUser).
Viewers == Users \cup {NoUser}
\* new Date() in addView: the stamp of a view entry.
Stamps == 1..MaxStamps

\* Job.findById
GetJobRead(s, u, j) ==
  /\ CanStart(s)
  /\ UNCHANGED <<reviewVars, userVars>>
  /\ UNCHANGED <<jobs, proposals>>
  /\ IF ~JobExists(j)
     THEN Answer(s, "getJob", u, j, NoId, NotFound)
     ELSE /\ jobs[j].views + Cardinality(InFlight({"getJob"})) < MaxViews
          /\ reqs' = [reqs EXCEPT ![s] = [Idle EXCEPT !.op = "getJob", !.pc = "addView",
                                                      !.caller = u, !.jid = j,
                                                      !.seen = jobs[j].status]]
          /\ UNCHANGED resp

\* A faulty addView that counts a view only with an artist id: the fault
\* the property of C27 detects.
C27_AddViewArtistsOnly(job, u, t) ==
  [job EXCEPT !.views = IF u \in Artists THEN @ + 1 ELSE @,
              !.viewedBy = IF u \in Artists THEN @ \cup {[artist |-> u, viewedAt |-> t]}
                           ELSE @]

\* jobSchema.methods.addView: updateOne with $inc on views and, for an
\* artist, $addToSet of the entry { artist, viewedAt: new Date() }.
AddView(job, u, t) ==
  [job EXCEPT !.views = @ + 1,
              !.viewedBy = IF u \in Artists THEN @ \cup {[artist |-> u, viewedAt |-> t]}
                           ELSE @]

\* job.addView(...), then the response carries the document as loaded.
GetJobAddView(s, t) ==
  /\ reqs[s].op = "getJob" /\ reqs[s].pc = "addView"
  /\ UNCHANGED <<reviewVars, userVars>>
  /\ UNCHANGED proposals
  /\ jobs' = IF JobExists(reqs[s].jid)
             THEN [jobs EXCEPT ![reqs[s].jid] = AddView(@, reqs[s].caller, t)]
             ELSE jobs
  /\ resp' = [Response("getJob", reqs[s].caller, reqs[s].jid, NoId, OK)
                EXCEPT !.shown = reqs[s].seen]
  /\ reqs' = [reqs EXCEPT ![s] = Idle]

\* ------------------------------------------- jobSchema.methods.canArtistApply
\* The ObjectId of a user document, in the id space of the proposals: it
\* differs from every proposal's _id.
UserOid(u) ==
  CASE u = "a1" -> MaxProposals + 1
    [] u = "a2" -> MaxProposals + 2
    [] u = "c1" -> MaxProposals + 3
    [] OTHER -> MaxProposals + 4

\* Array.prototype.includes on applications.received (proposal ids).
Includes(seq, x) == \E i \in 1..Len(seq) : seq[i] = x

CanArtistApply(job, a) ==
  IF job.status # "open" THEN FALSE
  ELSE IF ~job.accepting THEN FALSE
  ELSE IF DeadlinePassed(job) THEN FALSE
  ELSE IF Len(job.received) >= job.maxApplications THEN FALSE
  ELSE ~Includes(job.received, UserOid(a))

\* ---------------------------------------------------------------- reviews
\* A review payload: overall rating, comment length, number of breakdown
\* fields set, number of images.  The route passes neither a status nor a
\* verificationMethod, so both take the schema's defaults.
ReviewPayloads ==
  << [overall |-> 5, comment |-> 60, breakdown |-> 2, images |-> 1],
     [overall |-> 4, comment |-> 10, breakdown |-> 0, images |-> 0] >>
PayloadIds == 1..Len(ReviewPayloads)
NoMethod == "unset"

\* The payloads that pass the schema's validation, by the cases the score
\* tells apart: overall in 1..5, a comment of 10 characters or more, any
\* number of the six breakdown fields, some images.
MaxOverall == 5
BreakdownFields == 6
CommentLengths == <<10, 19, 20, 49, 50, 60>>
GridSize == MaxOverall * Len(CommentLengths) * (BreakdownFields + 1) * (MaxImages + 1)
GridPayload(n) ==
  LET k == n - 1
      c == Len(CommentLengths)
      b == BreakdownFields + 1
      i == MaxImages + 1
  IN [overall |-> 1 + (k \div (c * b * i)),
      comment |-> CommentLengths[1 + ((k \div (b * i)) % c)],
      breakdown |-> (k \div i) % b,
      images |-> k % i]
GridIds == {Len(ReviewPayloads) + n : n \in 1..GridSize}
Payload(pl) ==
  IF pl \in PayloadIds THEN ReviewPayloads[pl]
  ELSE GridPayload(pl - Len(ReviewPayloads))

\* The verificationMethod a request body carries beside its payload: the
\* first payload is sent with booking_confirmed.  The route takes jobId,
\* rating, title, comment, images and experience from the body, nothing else.
BodyMethod(pl) == IF pl = 1 THEN "booking_confirmed" ELSE NoMethod

Min(a, b) == IF a < b THEN a ELSE b

\* A faulty score, with the comment thresholds exclusive: the fault the
\* property of C20 detects.
C20_ScoreExclusiveThresholds(r) ==
  LET base == IF r.overall # 0 THEN 30 ELSE 0
      text == IF r.comment > 50 THEN 25
              ELSE IF r.comment > 20 THEN 15
              ELSE IF r.comment > 0 THEN 10 ELSE 0
      brk == Min(20, r.breakdown * 3)
      img == IF r.images >= 3 THEN 15 ELSE IF r.images >= 1 THEN 10 ELSE 0
      exp == IF r.expSet THEN 10 ELSE 0
  IN Min(100, base + text + brk + img + exp)

\* A faulty score that gives four points for a breakdown field, so that six
\* fields reach the ceiling of 20 and the sum reaches 100: the fault the
\* property of C39 detects.
C39_ScoreFourPerField(r) ==
  LET base == IF r.overall # 0 THEN 30 ELSE 0
      text == IF r.comment >= 50 THEN 25
              ELSE IF r.comment >= 20 THEN 15
              ELSE IF r.comment > 0 THEN 10 ELSE 0
      brk == Min(20, r.breakdown * 4)
      img == IF r.images >= 3 THEN 15 ELSE IF r.images >= 1 THEN 10 ELSE 0
      exp == IF r.expSet THEN 10 ELSE 0
  IN Min(100, base + text + brk + img + exp)

\* reviewSchema.virtual('completenessScore')
CompletenessScore(r) ==
  LET base == IF r.overall # 0 THEN 30 ELSE 0
      text == IF r.comment >= 50 THEN 25
              ELSE IF r.comment >= 20 THEN 15
              ELSE IF r.comment > 0 THEN 10 ELSE 0
      brk == Min(20, r.breakdown * 3)
      img == IF r.images >= 3 THEN 15 ELSE IF r.images >= 1 THEN 10 ELSE 0
      exp == IF r.expSet THEN 10 ELSE 0
  IN Min(100, base + text + brk + img + exp)

\* A faulty hook that tests isVerified as it was loaded, before the
\* auto-verify: the fault the property of C21 detects.
C21_PreSaveStaleVerified(r) ==
  LET q == CompletenessScore(r)
      v == r.isVerified \/ r.verificationMethod = "booking_confirmed"
  IN [r EXCEPT !.qualityScore = q,
               !.isHighQuality = (q >= 80),
               !.isVerified = v,
               !.status = IF q >= 80 /\ r.isVerified /\ r.status = "submitted"
                          THEN "published" ELSE r.status]

\* reviewSchema.pre('save')
PreSave(r) ==
  LET q == CompletenessScore(r)
      v == r.isVerified \/ r.verificationMethod = "booking_confirmed"
  IN [r EXCEPT !.qualityScore = q,
               !.isHighQuality = (q >= 80),
               !.isVerified = v,
               !.status = IF q >= 80 /\ v /\ r.status = "submitted"
                          THEN "published" ELSE r.status]

NewReview(u, a, j, pl) ==
  [reviewer |-> u, reviewee |-> a, job |-> j,
   overall |-> Payload(pl).overall, comment |-> Payload(pl).comment,
   breakdown |-> Payload(pl).breakdown, images |-> Payload(pl).images,
   expSet |-> TRUE, verificationMethod |-> NoMethod, isVerified |-> FALSE,
   qualityScore |-> 50, isHighQuality |-> FALSE, status |-> "submitted",
   flags |-> 0, isModerated |-> FALSE, moderatedBy |-> NoUser,
   moderatedAt |-> 0, moderationNotes |-> NoMethod, gone |-> FALSE]

\* The reviews in the collection (a removed document stays in the sequence,
\* marked gone, so that ids are stable).
Stored == {r \in 1..Len(reviews) : ~reviews[r].gone}
Published(a) == {r \in Stored : reviews[r].reviewee = a /\ reviews[r].status = "published"}
\* A stored review of reviewer u for job j: the key of the unique index.
ReviewPairTaken(u, j) ==
  \E r \in Stored : reviews[r].reviewer = u /\ reviews[r].job = j

RECURSIVE SumOverall(_)
SumOverall(S) ==
  IF S = {} THEN 0
  ELSE LET r == CHOOSE x \in S : TRUE IN reviews[r].overall + SumOverall(S \ {r})

\* Math.round(avg * 10) / 10, kept in tenths: Math.round rounds half up.
RoundTenths(sum, cnt) == (20 * sum + cnt) \div (2 * cnt)

\* reviewSchema.post('save') after the document r was saved by the operation
\* op of principal u: the recomputation runs for a document that is published
\* now, and otherwise the operation is over.  Only the route answers a client.
AfterSave(s, op, u, j, r) ==
  IF reviews'[r].status = "published"
  THEN /\ reqs' = [reqs EXCEPT ![s] = [Idle EXCEPT !.op = op, !.pc = "aggregate",
                       !.caller = u, !.jid = j, !.pid = r,
                       !.artist = reviews'[r].reviewee]]
       /\ UNCHANGED resp
  ELSE /\ resp' = IF op = "createReview" THEN Response(op, u, j, r, OK) ELSE resp
       /\ reqs' = [reqs EXCEPT ![s] = Idle]

\* A faulty create route, without the check that the job is completed: the
\* fault the property of C19 detects.
C19_ReviewCreateReadJobNoStatus(s, u, j, pl) ==
  /\ CanStart(s)
  /\ Len(reviews) + Cardinality(InFlight({"createReview"})) < MaxReviews
  /\ UNCHANGED <<userVars, jobs, proposals, reviews, rating>>
  /\ IF u \notin Clients
     THEN Answer(s, "createReview", u, j, NoId, Forbidden)
     ELSE IF ~JobExists(j) \/ jobs[j].client # u
     THEN Answer(s, "createReview", u, j, NoId, Forbidden)
     ELSE /\ reqs' = [reqs EXCEPT ![s] = [Idle EXCEPT !.op = "createReview",
                         !.pc = "save", !.caller = u, !.jid = j, !.body = pl,
                         !.artist = jobs[j].assignedArtist]]
          /\ UNCHANGED resp

\* ------------------------------------------------------- POST /reviews
ReviewCreateReadJob(s, u, j, pl) ==
  /\ CanStart(s)
  /\ Len(reviews) + Cardinality(InFlight({"createReview"})) < MaxReviews
  /\ UNCHANGED <<userVars, jobs, proposals, reviews, rating>>
  /\ IF u \notin Clients
     THEN Answer(s, "createReview", u, j, NoId, Forbidden)
     ELSE IF ~JobExists(j) \/ jobs[j].client # u
     THEN Answer(s, "createReview", u, j, NoId, Forbidden)
     ELSE IF jobs[j].status # "completed"
     THEN Answer(s, "createReview", u, j, NoId, InvalidState)
     ELSE /\ reqs' = [reqs EXCEPT ![s] = [Idle EXCEPT !.op = "createReview",
                         !.pc = "save", !.caller = u, !.jid = j, !.body = pl,
                         !.artist = jobs[j].assignedArtist]]
          /\ UNCHANGED resp

\* Review.create: validation (reviewee is required), the pre-save hook, the
\* insert under the unique index on (reviewer, job), the post-save hook.
ReviewCreateSave(s) ==
  /\ reqs[s].op = "createReview" /\ reqs[s].pc = "save"
  /\ UNCHANGED <<userVars, jobs, proposals, rating>>
  /\ IF \/ reqs[s].artist = NoUser
        \/ \E r \in Stored : reviews[r].reviewer = reqs[s].caller
                             /\ reviews[r].job = reqs[s].jid
     THEN /\ Finish(s, ServerError)
          /\ UNCHANGED reviews
     ELSE /\ reviews' = Append(reviews,
                 PreSave(NewReview(reqs[s].caller, reqs[s].artist, reqs[s].jid, reqs[s].body)))
          /\ AfterSave(s, "createReview", reqs[s].caller, reqs[s].jid, Len(reviews) + 1)

\* ------------------------------------------------------- review.save()
\* A save of the stored document r with no field changed: the hooks run.
SaveReview(s, u, r) ==
  /\ CanStart(s)
  /\ r \in Stored
  /\ UNCHANGED <<userVars, jobs, proposals, rating>>
  /\ reviews' = [reviews EXCEPT ![r] = PreSave(@)]
  /\ AfterSave(s, "save", u, reviews[r].job, r)

\* --------------------------------------------- reviewSchema.methods.moderate
\* A faulty moderation whose switch falls through from approve to reject:
\* the fault the property of C32 detects.
C32_ModeratedStatusFallsThrough(action, status) ==
  IF action \in {"approve", "reject"} THEN "removed"
  ELSE IF action = "hide" THEN "hidden"
  ELSE status

ModeratedStatus(action, status) ==
  IF action = "approve" THEN "published"
  ELSE IF action = "reject" THEN "removed"
  ELSE IF action = "hide" THEN "hidden"
  ELSE status

\* moderate(moderatorId, action, notes) called at time t, text being the notes.
ModerateWith(s, u, r, action, text, t) ==
  /\ CanStart(s)
  /\ r \in Stored
  /\ UNCHANGED <<userVars, jobs, proposals, rating>>
  /\ reviews' = [reviews EXCEPT ![r] =
        PreSave([@ EXCEPT !.isModerated = TRUE,
                          !.moderatedBy = u,
                          !.moderatedAt = t,
                          !.moderationNotes = text,
                          !.status = ModeratedStatus(action, @)])]
  /\ AfterSave(s, "moderate", u, reviews[r].job, r)

\* moderate(moderatorId, action): notes = '' by default.
Moderate(s, u, r, action) == ModerateWith(s, u, r, action, "", 1)

\* ------------------------------------------------- reviewSchema.methods.flag
\* A faulty flag that demotes whatever the status is: the fault the property
\* of C33 detects.
C33_FlagDemotesAlways(s, u, r) ==
  /\ CanStart(s)
  /\ r \in Stored
  /\ reviews[r].flags < MaxFlags
  /\ UNCHANGED <<userVars, jobs, proposals, rating>>
  /\ reviews' = [reviews EXCEPT ![r] =
        PreSave([@ EXCEPT !.flags = @ + 1, !.status = "flagged"])]
  /\ AfterSave(s, "flag", u, reviews[r].job, r)

Flag(s, u, r) ==
  /\ CanStart(s)
  /\ r \in Stored
  /\ reviews[r].flags < MaxFlags
  /\ UNCHANGED <<userVars, jobs, proposals, rating>>
  /\ reviews' = [reviews EXCEPT ![r] =
        PreSave([@ EXCEPT !.flags = @ + 1,
                          !.status = IF @ = "published" THEN "flagged" ELSE @])]
  /\ AfterSave(s, "flag", u, reviews[r].job, r)

\* ------------------------------ document removal, reviewSchema.post('remove')
Remove(s, r) ==
  /\ CanStart(s)
  /\ r \in Stored
  /\ UNCHANGED <<userVars, jobs, proposals, rating, resp>>
  /\ reviews' = [reviews EXCEPT ![r].gone = TRUE]
  /\ reqs' = [reqs EXCEPT ![s] = [Idle EXCEPT !.op = "remove", !.pc = "aggregate",
                                              !.jid = reviews[r].job, !.pid = r,
                                              !.artist = reviews[r].reviewee]]

\* ------------------------------------------------------ updateArtistRating
\* Review.aggregate: $match reviewee and published, $group average and count.
RatingAggregate(s) ==
  /\ reqs[s].pc = "aggregate"
  /\ UNCHANGED <<userVars, jobs, proposals, reviews, rating, resp>>
  /\ reqs' = [reqs EXCEPT ![s].pc = "ratingWrite",
                          ![s].sum = SumOverall(Published(reqs[s].artist)),
                          ![s].cnt = Cardinality(Published(reqs[s].artist))]

\* User.findById and artist.save(): nothing is written when the aggregation
\* matched no review.  An error is caught by the hook and logged.
NewRating(old, sum, cnt) ==
  IF cnt > 0 THEN [average |-> RoundTenths(sum, cnt), count |-> cnt] ELSE old

RatingWrite(s, ok) ==
  /\ reqs[s].pc = "ratingWrite"
  /\ UNCHANGED <<userVars, jobs, proposals, reviews>>
  /\ rating' = IF ok
               THEN [rating EXCEPT ![reqs[s].artist] = NewRating(@, reqs[s].sum, reqs[s].cnt)]
               ELSE rating
  /\ resp' = IF reqs[s].op = "createReview"
             THEN Response(reqs[s].op, reqs[s].caller, reqs[s].jid, reqs[s].pid, OK)
             ELSE resp
  /\ reqs' = [reqs EXCEPT ![s] = Idle]

\* ---------------------------------------------------------- authentication
\* Time is counted in ticks: the lock of an account lasts LockTicks, the
\* window of the rate limiter WindowTicks, and the clock stops at MaxClock.
MaxClock == 4
LockTicks == 2
WindowTicks == 2
LockAfter == 5
MaxAttempts == 5

Locked == "Locked"                \* 423
Unauthorized == "Unauthorized"    \* 401 'Invalid credentials'
TooMany == "TooMany"              \* 429
Passed == "next"                  \* next(): the request goes on to the route

\* The user the logins are made to.
Account == "a1"

\* Date.now() moves on.
Tick ==
  /\ clock < MaxClock
  /\ clock' = clock + 1
  /\ UNCHANGED <<jobs, proposals, reviewVars, profile, notes, login, rateLimitStore,
                 reqs, resp>>

\* userSchema.virtual('isLocked') of the document doc at time now.
IsLocked(doc, now) == doc.lockUntil # NoLock /\ doc.lockUntil > now

\* POST /auth/login with the email of Account, up to the password check:
\* the handler loads the user, answers 423 to a locked account and 401 to a
\* deactivated one, and otherwise keeps the document it
\* loaded (cnt: loginAttempts, sum: lockUntil) while bcrypt compares the
\* password (body: 1 when it matches).
LoginRead(s, match) ==
  /\ CanStart(s)
  /\ UNCHANGED <<jobs, proposals, reviewVars, userVars>>
  /\ IF IsLocked(login, clock)
     THEN Answer(s, "login", Account, NoId, NoId, Locked)
     ELSE IF ~profile[Account].isActive
     THEN Answer(s, "login", Account, NoId, NoId, Unauthorized)
     ELSE /\ reqs' = [reqs EXCEPT ![s] = [Idle EXCEPT !.op = "login", !.pc = "password",
                         !.caller = Account,
                         !.body = IF match THEN 1 ELSE 0,
                         !.cnt = login.loginAttempts, !.sum = login.lockUntil]]
          /\ UNCHANGED resp

\* userSchema.methods.incLoginAttempts called at time now on the document
\* doc the handler loaded: the update it sends, applied to the stored fields.
IncLoginAttempts(doc, stored, now) ==
  IF doc.lockUntil # NoLock /\ doc.lockUntil < now
  THEN [loginAttempts |-> 1, lockUntil |-> NoLock]
  ELSE [loginAttempts |-> stored.loginAttempts + 1,
        lockUntil |-> IF doc.loginAttempts + 1 >= LockAfter /\ ~IsLocked(doc, now)
                      THEN now + LockTicks ELSE stored.lockUntil]

\* The rest of the login: a wrong password counts an attempt and is
\* answered 401; a right one resets the attempts, when the loaded document
\* had any, and is answered 200.
LoginWrite(s) ==
  /\ reqs[s].op = "login" /\ reqs[s].pc = "password"
  /\ UNCHANGED <<jobs, proposals, reviewVars, profile, notes, clock, rateLimitStore>>
  /\ LET doc == [loginAttempts |-> reqs[s].cnt, lockUntil |-> reqs[s].sum]
     IN IF reqs[s].body = 0
        THEN /\ login' = IncLoginAttempts(doc, login, clock)
             /\ Finish(s, Unauthorized)
        ELSE /\ login' = IF doc.loginAttempts > 0 THEN NewLogin ELSE login
             /\ Finish(s, OK)

\* A faulty limiter that compares with <=, and lets a sixth request of the
\* window through: the fault the property of C38 detects.
C38_AuthRateLimitInclusive(ip) ==
  /\ UNCHANGED <<jobs, proposals, reviewVars, profile, notes, login, clock, reqs>>
  /\ LET expired(k) == clock - rateLimitStore[k].firstAttempt > WindowTicks
         store == [k \in IPs |-> IF expired(k) THEN NoEntry ELSE rateLimitStore[k]]
         current == store[ip]
     IN IF current = NoEntry \/ clock - current.firstAttempt > WindowTicks
        THEN /\ rateLimitStore' = [store EXCEPT ![ip] = [count |-> 1, firstAttempt |-> clock]]
             /\ resp' = Response("authRateLimit", ip, NoId, NoId, Passed)
        ELSE IF current.count <= MaxAttempts
        THEN /\ rateLimitStore' = [store EXCEPT ![ip].count = @ + 1]
             /\ resp' = Response("authRateLimit", ip, NoId, NoId, Passed)
        ELSE /\ rateLimitStore' = store
             /\ resp' = Response("authRateLimit", ip, NoId, NoId, TooMany)

\* authRateLimit for a request from ip: one synchronous function, which
\* first deletes every entry older than the window.
AuthRateLimit(ip) ==
  /\ UNCHANGED <<jobs, proposals, reviewVars, profile, notes, login, clock, reqs>>
  /\ LET expired(k) == clock - rateLimitStore[k].firstAttempt > WindowTicks
         store == [k \in IPs |-> IF expired(k) THEN NoEntry ELSE rateLimitStore[k]]
         current == store[ip]
     IN IF current = NoEntry \/ clock - current.firstAttempt > WindowTicks
        THEN /\ rateLimitStore' = [store EXCEPT ![ip] = [count |-> 1, firstAttempt |-> clock]]
             /\ resp' = Response("authRateLimit", ip, NoId, NoId, Passed)
        ELSE IF current.count < MaxAttempts
        THEN /\ rateLimitStore' = [store EXCEPT ![ip].count = @ + 1]
             /\ resp' = Response("authRateLimit", ip, NoId, NoId, Passed)
        ELSE /\ rateLimitStore' = store
             /\ resp' = Response("authRateLimit", ip, NoId, NoId, TooMany)

\* --------------------------------------------------------- specifications
\* Each specification runs the handlers of one part of the API, concurrently,
\* from the empty store.
PlainBody == 1
ArtistBody == 3
LimitedBody == 5
InvertedBody == 6
RaisedMinBody == 7
FirstBid == 1
SecondBid == 2

\* Jobs, submits and accepts; a job write may fail.
NextAccept ==
  \/ \E s \in Slots, u \in Clients : Len(jobs) < MaxBidJobs /\ CreateJob(s, u, PlainBody)
  \/ \E s \in Slots, u \in Artists, j \in JobIds : SubmitReadJob(s, u, j, FirstBid)
  \/ \E s \in Slots : SubmitFindExisting(s)
  \/ \E s \in Slots : SubmitSave(s)
  \/ \E s \in Slots, ok \in BOOLEAN : SubmitJobSave(s, ok)
  \/ \E s \in Slots, u \in Users, p \in ProposalIds : AcceptRead(s, u, p)
  \/ \E s \in Slots : AcceptRejectOthers(s)
  \/ \E s \in Slots : AcceptSave(s)
  \/ \E s \in Slots, ok \in BOOLEAN : AcceptJobSave(s, ok)

SpecAccept == Init /\ [][NextAccept]_vars

\* Jobs of both clients, one artist's submits and the assign route.
NextAssign ==
  \/ \E s \in Slots, u \in Clients : CreateJob(s, u, PlainBody)
  \/ \E s \in Slots, j \in JobIds : SubmitReadJob(s, "a1", j, FirstBid)
  \/ \E s \in Slots : SubmitFindExisting(s)
  \/ \E s \in Slots : SubmitSave(s)
  \/ \E s \in Slots : SubmitJobSave(s, TRUE)
  \/ \E s \in Slots, u \in Clients, j \in JobIds, p \in ProposalIds :
       AssignCheckAccess(s, u, j, p)
  \/ \E s \in Slots : AssignFindProposal(s)
  \/ \E s \in Slots : AssignJobUpdate(s)
  \/ \E s \in Slots : AssignProposalUpdate(s)
  \/ \E s \in Slots : AssignDeclineOthers(s)

SpecAssign == Init /\ [][NextAssign]_vars

\* The proposal lifecycle: submit, update, accept, reject, withdraw.
NextLifecycle ==
  \/ \E s \in Slots : Len(jobs) < MaxBidJobs /\ CreateJob(s, "c1", PlainBody)
  \/ \E s \in Slots, u \in Artists, j \in JobIds : SubmitReadJob(s, u, j, FirstBid)
  \/ \E s \in Slots : SubmitFindExisting(s)
  \/ \E s \in Slots : SubmitSave(s)
  \/ \E s \in Slots : SubmitJobSave(s, TRUE)
  \/ \E s \in Slots, u \in Artists, p \in ProposalIds : UpdateRead(s, u, p, SecondBid)
  \/ \E s \in Slots : UpdateSave(s)
  \/ \E s \in Slots, u \in Clients, p \in ProposalIds : AcceptRead(s, u, p)
  \/ \E s \in Slots : AcceptRejectOthers(s)
  \/ \E s \in Slots : AcceptSave(s)
  \/ \E s \in Slots : AcceptJobSave(s, TRUE)
  \/ \E s \in Slots, u \in Clients, p \in ProposalIds : RejectRead(s, u, p, 1)
  \/ \E s \in Slots : RejectSave(s)
  \/ \E s \in Slots, u \in Artists, p \in ProposalIds : WithdrawRead(s, u, p)
  \/ \E s \in Slots : WithdrawSave(s)

SpecLifecycle == Init /\ [][NextLifecycle]_vars

\* Concurrent submits, by any caller, on a job with the default or a small
\* application limit, while time passes.
NextSubmit ==
  \/ \E s \in Slots, u \in Clients, b \in {PlainBody, LimitedBody} :
       Len(jobs) < MaxBidJobs /\ CreateJob(s, u, b)
  \/ \E j \in JobIds : TimePasses(j)
  \/ \E s \in Slots, u \in Users, j \in JobIds, bid \in Bids : SubmitReadJob(s, u, j, bid)
  \/ \E s \in Slots : SubmitFindExisting(s)
  \/ \E s \in Slots : SubmitSave(s)
  \/ \E s \in Slots, ok \in BOOLEAN : SubmitJobSave(s, ok)

SpecSubmit == Init /\ [][NextSubmit]_vars

\* The job routes: create, update, delete, assign, with submit and accept.
\* The bodies set a status or an artist; the application limit stays default.
StatusBodies == JobBodyIds \ {LimitedBody, InvertedBody, RaisedMinBody}
NextJob ==
  \/ \E s \in Slots, u \in Users, b \in StatusBodies :
       Len(jobs) < MaxBidJobs /\ CreateJob(s, u, b)
  \/ \E s \in Slots, u \in Users, j \in JobIds, b \in StatusBodies :
       UpdateJobCheckAccess(s, u, j, b)
  \/ \E s \in Slots : UpdateJobWrite(s)
  \/ \E s \in Slots, u \in Users, j \in JobIds : DeleteJobCheckAccess(s, u, j)
  \/ \E s \in Slots : DeleteJobWrite(s)
  \/ \E s \in Slots, j \in JobIds : SubmitReadJob(s, "a1", j, FirstBid)
  \/ \E s \in Slots : SubmitFindExisting(s)
  \/ \E s \in Slots : SubmitSave(s)
  \/ \E s \in Slots : SubmitJobSave(s, TRUE)
  \/ \E s \in Slots, u \in Clients, p \in ProposalIds : AcceptRead(s, u, p)
  \/ \E s \in Slots : AcceptRejectOthers(s)
  \/ \E s \in Slots : AcceptSave(s)
  \/ \E s \in Slots : AcceptJobSave(s, TRUE)
  \/ \E s \in Slots, u \in Clients, j \in JobIds, p \in ProposalIds :
       AssignCheckAccess(s, u, j, p)
  \/ \E s \in Slots : AssignFindProposal(s)
  \/ \E s \in Slots : AssignJobUpdate(s)
  \/ \E s \in Slots : AssignProposalUpdate(s)
  \/ \E s \in Slots : AssignDeclineOthers(s)

SpecJob == Init /\ [][NextJob]_vars

\* Reviews and the artist rating, on jobs created completed with an artist.
Moderator == "c2"
Actions == {"approve", "reject", "hide", "other"}
NextReview ==
  \/ \E s \in Slots : CreateJob(s, "c1", ArtistBody)
  \/ \E s \in Slots, u \in Clients, j \in JobIds, pl \in PayloadIds :
       ReviewCreateReadJob(s, u, j, pl)
  \/ \E s \in Slots : ReviewCreateSave(s)
  \/ \E s \in Slots, r \in 1..MaxReviews, a \in Actions : Moderate(s, Moderator, r, a)
  \/ \E s \in Slots, r \in 1..MaxReviews : Flag(s, Moderator, r)
  \/ \E s \in Slots, r \in 1..MaxReviews : Remove(s, r)
  \/ \E s \in Slots : RatingAggregate(s)
  \/ \E s \in Slots : RatingWrite(s, TRUE)

SpecReview == Init /\ [][NextReview]_vars

\* Quiescent(): no handler is between two of its steps.
Quiescent == \A s \in Slots : reqs[s].pc = "idle"

\* A job whose dates pass between requests, with reads, submits and accepts.
NextExpiry ==
  \/ \E s \in Slots : Len(jobs) < MaxBidJobs /\ CreateJob(s, "c1", PlainBody)
  \/ \E j \in JobIds : Quiescent /\ TimePasses(j)
  \/ \E s \in Slots, u \in {"a1", NoUser}, j \in JobIds : GetJobRead(s, u, j)
  \/ \E s \in Slots : GetJobAddView(s, 1)
  \/ \E s \in Slots, j \in JobIds : SubmitReadJob(s, "a1", j, FirstBid)
  \/ \E s \in Slots : SubmitFindExisting(s)
  \/ \E s \in Slots : SubmitSave(s)
  \/ \E s \in Slots : SubmitJobSave(s, TRUE)
  \/ \E s \in Slots, p \in ProposalIds : AcceptRead(s, "c1", p)
  \/ \E s \in Slots : AcceptRejectOthers(s)
  \/ \E s \in Slots : AcceptSave(s)
  \/ \E s \in Slots : AcceptJobSave(s, TRUE)

SpecExpiry == Init /\ [][NextExpiry]_vars

\* The create review route, by any caller, on jobs of both clients in any
\* status; nothing verifies a review, so none is published by its creation.
NextReviewGate ==
  \/ \E s \in Slots, u \in Clients, b \in StatusBodies : CreateJob(s, u, b)
  \/ \E s \in Slots, u \in Users, j \in JobIds, pl \in PayloadIds :
       ReviewCreateReadJob(s, u, j, pl)
  \/ \E s \in Slots : ReviewCreateSave(s)

SpecReviewGate == Init /\ [][NextReviewGate]_vars

\* Reviews of every valid content on one completed job, each the first of
\* its client for the job, saved by the create route and saved again by flag
\* and moderate.
NextScore ==
  \/ \E s \in Slots : Len(jobs) < MaxBidJobs /\ CreateJob(s, "c1", ArtistBody)
  \/ \E s \in Slots, j \in JobIds :
       /\ Quiescent /\ JobExists(j) /\ ~ReviewPairTaken("c1", j)
       /\ \E pl \in GridIds : ReviewCreateReadJob(s, "c1", j, pl)
  \/ \E s \in Slots : ReviewCreateSave(s)
  \/ \E s \in Slots, r \in 1..MaxReviews, a \in Actions : Moderate(s, Moderator, r, a)
  \/ \E s \in Slots, r \in 1..MaxReviews : Flag(s, Moderator, r)
  \/ \E s \in Slots : RatingAggregate(s)
  \/ \E s \in Slots : RatingWrite(s, TRUE)

SpecScore == Init /\ [][NextScore]_vars

\* A review document of any valid content, verification and status, as
\* built in memory and not yet saved, about artist a1 for job 1 of c1.
Methods == {NoMethod, "booking_confirmed", "payment_verified", "manual_verification"}
Statuses == {"draft", "submitted", "published", "flagged", "removed", "hidden"}
Document(pl, m, v, st) ==
  [NewReview("c1", "a1", 1, pl) EXCEPT !.verificationMethod = m,
                                       !.isVerified = v,
                                       !.status = st]
InitResave ==
  /\ InitAuth
  /\ jobs = << NewJob("c1", ArtistBody) >>
  /\ proposals = << >>
  /\ \E pl \in PayloadIds \cup GridIds, m \in Methods, v \in BOOLEAN, st \in Statuses :
       reviews = << Document(pl, m, v, st) >>
  /\ rating = [a \in Artists |-> [average |-> 0, count |-> 0]]
  /\ profile = [a \in Artists |-> NewProfile]
  /\ notes = {}
  /\ reqs = [s \in Slots |-> Idle]
  /\ resp = NoResponse

\* Saves of the document with no field changed, and the rating they start.
NextResave ==
  \/ \E s \in Slots, r \in 1..MaxReviews : SaveReview(s, "c1", r)
  \/ \E s \in Slots : RatingAggregate(s)
  \/ \E s \in Slots : RatingWrite(s, TRUE)

SpecResave == InitResave /\ [][NextResave]_vars

\* A stored review of any valid content, verification and status: a
\* document as its last save left it.
InitModerate ==
  /\ InitAuth
  /\ jobs = << NewJob("c1", ArtistBody) >>
  /\ proposals = << >>
  /\ \E pl \in PayloadIds, m \in Methods, v \in BOOLEAN, st \in Statuses :
       reviews = << PreSave(Document(pl, m, v, st)) >>
  /\ rating = [a \in Artists |-> [average |-> 0, count |-> 0]]
  /\ profile = [a \in Artists |-> NewProfile]
  /\ notes = {}
  /\ reqs = [s \in Slots |-> Idle]
  /\ resp = NoResponse

\* Moderations with any action, by c1 without notes and by c2 with notes at
\* a later time, and flags, on the stored review.
ModerationCalls ==
  { [by |-> "c1", text |-> "", at |-> 1],
    [by |-> "c2", text |-> "checked", at |-> 2] }
NextModerate ==
  \/ \E s \in Slots, r \in 1..MaxReviews, a \in Actions, c \in ModerationCalls :
       ModerateWith(s, c.by, r, a, c.text, c.at)
  \/ \E s \in Slots, r \in 1..MaxReviews : Flag(s, Moderator, r)
  \/ \E s \in Slots : RatingAggregate(s)
  \/ \E s \in Slots : RatingWrite(s, TRUE)

SpecModerate == InitModerate /\ [][NextModerate]_vars

\* The owner-only job routes called by every user, on jobs of c1 with and
\* without an assigned artist and with proposals of a1.
NextAccess ==
  \/ \E s \in Slots, b \in {PlainBody, ArtistBody} :
       Len(jobs) < MaxBidJobs /\ CreateJob(s, "c1", b)
  \/ \E s \in Slots, u \in Users, j \in JobIds, b \in {PlainBody, ArtistBody} :
       UpdateJobCheckAccess(s, u, j, b)
  \/ \E s \in Slots : UpdateJobWrite(s)
  \/ \E s \in Slots, u \in Users, j \in JobIds : DeleteJobCheckAccess(s, u, j)
  \/ \E s \in Slots : DeleteJobWrite(s)
  \/ \E s \in Slots, j \in JobIds : SubmitReadJob(s, "a1", j, FirstBid)
  \/ \E s \in Slots : SubmitFindExisting(s)
  \/ \E s \in Slots : SubmitSave(s)
  \/ \E s \in Slots : SubmitJobSave(s, TRUE)
  \/ \E s \in Slots, u \in Users, j \in JobIds, p \in ProposalIds :
       AssignCheckAccess(s, u, j, p)
  \/ \E s \in Slots : AssignFindProposal(s)
  \/ \E s \in Slots : AssignJobUpdate(s)
  \/ \E s \in Slots : AssignProposalUpdate(s)
  \/ \E s \in Slots : AssignDeclineOthers(s)

SpecAccess == Init /\ [][NextAccess]_vars

\* Concurrent logins to one account, with right and wrong passwords, while
\* time passes.
NextLogin ==
  \/ \E s \in Slots, match \in BOOLEAN : LoginRead(s, match)
  \/ \E s \in Slots : LoginWrite(s)
  \/ Tick

SpecLogin == Init /\ [][NextLogin]_vars

\* Requests from two addresses through the rate limiter while time passes.
NextLimit ==
  \/ \E ip \in IPs : AuthRateLimit(ip)
  \/ Tick

SpecLimit == Init /\ [][NextLimit]_vars

\* The user routes of an artist, with reviews of the artist moderated into
\* and out of published and the rating recomputation they start.
NextUsers ==
  \/ \E s \in Slots : Len(jobs) < MaxBidJobs /\ CreateJob(s, "c1", ArtistBody)
  \/ \E s \in Slots, j \in JobIds : ReviewCreateReadJob(s, "c1", j, 1)
  \/ \E s \in Slots : ReviewCreateSave(s)
  \/ \E s \in Slots, r \in 1..MaxReviews, a \in {"approve", "hide"} :
       Moderate(s, Moderator, r, a)
  \/ \E s \in Slots : RatingAggregate(s)
  \/ \E s \in Slots : RatingWrite(s, TRUE)
  \/ \E s \in Slots, u \in {"a1", "c1"}, b \in UserBodyIds : UpdateArtistProfile(s, u, b)
  \/ \E s \in Slots, u \in {"a1", "c1"}, b \in UserBodyIds : UpdateDetails(s, u, b)
  \/ \E s \in Slots, u \in {"a1", "c1"} : DeactivateAccount(s, u)

SpecUsers == Init /\ [][NextUsers]_vars

\* Job creation whose fan-out may throw, and reviews moderated into published
\* whose rating recomputation may fail in its write.
NextSideEffects ==
  \/ \E s \in Slots, sent \in BOOLEAN :
       Len(jobs) < MaxBidJobs /\ CreateJobNotify(s, "c1", ArtistBody, sent)
  \/ \E s \in Slots, j \in JobIds, pl \in PayloadIds : ReviewCreateReadJob(s, "c1", j, pl)
  \/ \E s \in Slots : ReviewCreateSave(s)
  \/ \E s \in Slots, r \in 1..MaxReviews, a \in Actions : Moderate(s, Moderator, r, a)
  \/ \E s \in Slots, r \in 1..MaxReviews : Flag(s, Moderator, r)
  \/ \E s \in Slots : RatingAggregate(s)
  \/ \E s \in Slots, ok \in BOOLEAN : RatingWrite(s, ok)

SpecSideEffects == Init /\ [][NextSideEffects]_vars

\* Creations and owner updates whose bodies carry budget fields.
BudgetBodies == {PlainBody, InvertedBody, RaisedMinBody}
NextBudget ==
  \/ \E s \in Slots, u \in Clients, b \in BudgetBodies : CreateJob(s, u, b)
  \/ \E s \in Slots, u \in Clients, j \in JobIds, b \in BudgetBodies :
       UpdateJobCheckAccess(s, u, j, b)
  \/ \E s \in Slots : UpdateJobWrite(s)

SpecBudget == Init /\ [][NextBudget]_vars

\* Reads of one job by an artist and by an anonymous caller, concurrent with
\* a submit, an accept and an owner update that leaves the job invalid.
NextViews ==
  \/ \E s \in Slots : Len(jobs) < MaxBidJobs /\ CreateJob(s, "c1", PlainBody)
  \/ \E s \in Slots, u \in {"a1", NoUser}, j \in JobIds : GetJobRead(s, u, j)
  \/ \E s \in Slots, t \in Stamps : GetJobAddView(s, t)
  \/ \E s \in Slots, j \in JobIds : SubmitReadJob(s, "a1", j, FirstBid)
  \/ \E s \in Slots : SubmitFindExisting(s)
  \/ \E s \in Slots : SubmitSave(s)
  \/ \E s \in Slots : SubmitJobSave(s, TRUE)
  \/ \E s \in Slots, p \in ProposalIds : AcceptRead(s, "c1", p)
  \/ \E s \in Slots : AcceptRejectOthers(s)
  \/ \E s \in Slots : AcceptSave(s)
  \/ \E s \in Slots : AcceptJobSave(s, TRUE)
  \/ \E s \in Slots, j \in JobIds : UpdateJobCheckAccess(s, "c1", j, RaisedMinBody)
  \/ \E s \in Slots : UpdateJobWrite(s)

SpecViews == Init /\ [][NextViews]_vars

\* One job with proposals of both artists, and the assign route.
NextDecline ==
  \/ \E s \in Slots : Len(jobs) < MaxBidJobs /\ CreateJob(s, "c1", PlainBody)
  \/ \E s \in Slots, u \in Artists, j \in JobIds : SubmitReadJob(s, u, j, FirstBid)
  \/ \E s \in Slots : SubmitFindExisting(s)
  \/ \E s \in Slots : SubmitSave(s)
  \/ \E s \in Slots : SubmitJobSave(s, TRUE)
  \/ \E s \in Slots, j \in JobIds, p \in ProposalIds : AssignCheckAccess(s, "c1", j, p)
  \/ \E s \in Slots : AssignFindProposal(s)
  \/ \E s \in Slots : AssignJobUpdate(s)
  \/ \E s \in Slots : AssignProposalUpdate(s)
  \/ \E s \in Slots : AssignDeclineOthers(s)

SpecDecline == Init /\ [][NextDecline]_vars

\* ------------------------------------------------------------- properties
AcceptedOf(j) == {p \in ProposalsOf(j) : proposals[p].status = "accepted"}

\* C1: under any interleaving of concurrent accepts on different pending
\* proposals of the same job, no state has two accepted proposals of that job.
C1_AtMostOneAccepted ==
  \A j \in 1..Len(jobs) : Cardinality(AcceptedOf(j)) <= 1

\* The three effects of an accept of proposal p of job j, and their absence.
AllThree(j, p) ==
  /\ proposals[p].status = "accepted"
  /\ \A q \in ProposalsOf(j) \ {p} : proposals[q].status # "accepted"
  /\ jobs[j].status = "assigned"
  /\ jobs[j].selectedProposal = p
  /\ jobs[j].assignedArtist = proposals[p].artist
NoneOfThree(j) ==
  /\ AcceptedOf(j) = {}
  /\ \A q \in ProposalsOf(j) : proposals[q].respMsg # AutoMessage
  /\ jobs[j].status # "assigned"
  /\ jobs[j].selectedProposal = NoId
  /\ jobs[j].assignedArtist = NoUser

\* C2: accept is one logical unit: whenever no accept handler is in progress,
\* every job has either all three effects of an accept (proposal accepted,
\* the others not, job assigned to it) or none of them, also when the job
\* write fails after the proposal writes.
C2_AcceptAllOrNothing ==
  InFlight({"accept"}) = {} =>
    \A j \in 1..Len(jobs) :
      (\E p \in ProposalsOf(j) : AllThree(j, p)) \/ NoneOfThree(j)

\* C3: after an accept of a proposal of job j reported success, and with no
\* accept or assign handler in progress, exactly one proposal of j is
\* accepted, j.selectedProposal is that proposal, j.assignedArtist is its
\* artist and j.status is assigned.
C3_AssignmentConsistent ==
  (/\ resp.op \in {"accept", "assign"}
   /\ resp.res = OK
   /\ InFlight({"accept", "assign"}) = {}
   /\ ProposalExists(resp.pid)
   /\ JobExists(proposals[resp.pid].job))
  => LET j == proposals[resp.pid].job
     IN /\ Cardinality(AcceptedOf(j)) = 1
        /\ jobs[j].selectedProposal \in AcceptedOf(j)
        /\ jobs[j].assignedArtist = proposals[jobs[j].selectedProposal].artist
        /\ jobs[j].status = "assigned"

ReviewOps == {"createReview", "moderate", "flag", "remove"}
Dist(a, b) == IF a < b THEN b - a ELSE a - b
\* t is a tenth nearest to sum / cnt.
NearestTenth(t, sum, cnt) ==
  \A u \in 0..50 : Dist(10 * sum, t * cnt) <= Dist(10 * sum, u * cnt)

\* C4: once the review handlers have finished, every artist's rating.count is
\* the number of published reviews about the artist and rating.average is
\* the mean of their overall ratings, rounded to one decimal.
C4_RatingMatchesPublished ==
  InFlight(ReviewOps) = {} =>
    \A a \in Artists :
      /\ rating[a].count = Cardinality(Published(a))
      /\ Published(a) # {} =>
           NearestTenth(rating[a].average, SumOverall(Published(a)),
                        Cardinality(Published(a)))

IsPublished(rs, r) ==
  r \in 1..Len(rs) /\ ~rs[r].gone /\ rs[r].status = "published"

\* C5: every transition of a review into published or out of published (by
\* flag, by moderation, by removal of the document) starts a run of the
\* rating recomputation for the review's reviewee.
C5_TransitionRecomputes ==
  [][\A r \in 1..Len(reviews') :
       IsPublished(reviews, r) # IsPublished(reviews', r) =>
         \E s \in Slots : /\ reqs[s].pc = "idle"
                          /\ reqs'[s].pc = "aggregate"
                          /\ reqs'[s].artist = reviews'[r].reviewee]_vars

PairTaken(j, a) == \E p \in ProposalsOf(j) : proposals[p].artist = a
UniquePair ==
  \A p, q \in 1..Len(proposals) :
    proposals[p].job = proposals[q].job /\ proposals[p].artist = proposals[q].artist
      => p = q

\* C6: at most one proposal exists per (job, artist) pair, and a submit that
\* finds its pair taken by an existing proposal is answered Conflict and
\* creates no proposal, also when two submits of one artist run concurrently.
C6_DuplicateSubmitConflicts ==
  [][/\ UniquePair'
     /\ \A s \in Slots :
          (/\ reqs[s].op = "submit"
           /\ reqs[s].pid = NoId
           /\ reqs'[s].pc = "idle"
           /\ PairTaken(reqs[s].jid, reqs[s].caller))
          => resp'.res = Conflict /\ proposals' = proposals]_vars

\* C7: a proposal's status changes only from pending, and only to accepted,
\* rejected or withdrawn; a status that has left pending never changes again.
C7_TerminalStatusFinal ==
  [][\A p \in 1..Len(proposals) :
       proposals'[p].status # proposals[p].status =>
         /\ proposals[p].status = "pending"
         /\ proposals'[p].status \in {"accepted", "rejected", "withdrawn"}]_vars

\* C8: a proposal becomes accepted only by a request of the client who owns
\* the proposal's job, and only when the proposal is pending.
C8_AcceptOnlyByOwnerWhenPending ==
  [][\A p \in 1..Len(proposals) :
       (proposals'[p].status = "accepted" /\ proposals[p].status # "accepted") =>
         /\ proposals[p].status = "pending"
         /\ \E s \in Slots :
              /\ reqs[s].op \in {"accept", "assign"}
              /\ reqs[s].pid = p
              /\ JobExists(proposals[p].job)
              /\ jobs[proposals[p].job].client = reqs[s].caller]_vars

\* C9: the bid content of a proposal changes only while the proposal is
\* pending: no write of an update lands after the status has left pending.
C9_ContentChangesOnlyWhilePending ==
  [][\A p \in 1..Len(proposals) :
       proposals'[p].content # proposals[p].content =>
         proposals[p].status = "pending"]_vars

\* C10: on every job, assignedArtist and selectedProposal are both null or
\* both set.
C10_AssignmentFieldsTogether ==
  \A j \in 1..Len(jobs) :
    ~jobs[j].deleted =>
      ((jobs[j].assignedArtist = NoUser) <=> (jobs[j].selectedProposal = NoId))

\* C11: after any successful accept of a proposal the job's
\* applications.acceptingApplications is false.
C11_AcceptClosesApplications ==
  (resp.op \in {"accept", "assign"} /\ resp.res = OK /\ JobExists(resp.jid))
    => ~jobs[resp.jid].accepting

\* C12: on every job the number of entries of applications.received is at
\* most applications.maxApplications.
C12_ReceivedWithinMax ==
  \A j \in 1..Len(jobs) : Len(jobs[j].received) <= jobs[j].maxApplications

\* What canArtistApply is specified to return for job j and artist a.
MayApply(j, a) ==
  /\ jobs[j].status = "open"
  /\ jobs[j].accepting
  /\ ~DeadlinePassed(jobs[j])
  /\ Len(jobs[j].received) < jobs[j].maxApplications
  /\ ~PairTaken(j, a)

\* C13: with no submit in progress, canArtistApply(job, artist) is true
\* exactly when the job is open and accepting, the deadline is ahead, the
\* received count is below the limit and the artist has no proposal for the
\* job.
C13_CanArtistApplyExact ==
  InFlight({"submit"}) = {} =>
    \A j \in 1..Len(jobs), a \in Artists :
      ~jobs[j].deleted => (CanArtistApply(jobs[j], a) <=> MayApply(j, a))

Occurrences(seq, x) == Cardinality({i \in 1..Len(seq) : seq[i] = x})

\* C15: whenever no submit handler is in progress, every stored proposal's id
\* occurs exactly once in its job's received list and the list holds no
\* other ids.
C15_ReceivedListsProposals ==
  InFlight({"submit"}) = {} =>
    \A j \in 1..Len(jobs) :
      ~jobs[j].deleted =>
        /\ \A p \in ProposalsOf(j) : Occurrences(jobs[j].received, p) = 1
        /\ \A i \in 1..Len(jobs[j].received) : jobs[j].received[i] \in ProposalsOf(j)

Closed(j) == jobs[j].status # "open" \/ ~jobs[j].accepting

\* C14: a submit by an artist against an existing job that is not open, or
\* not accepting applications, when the handler reads it is answered
\* InvalidState and changes neither the proposals nor any job; only a submit
\* that read its job open and accepting goes on to its writes.
C14_ClosedJobRefusesSubmit ==
  [][/\ \A s \in Slots :
          (reqs[s].pc = "idle" /\ reqs'[s].op = "submit" /\ reqs'[s].pc # "idle")
            => JobExists(reqs'[s].jid) /\ ~Closed(reqs'[s].jid)
     /\ (/\ reqs' = reqs
         /\ resp' # resp
         /\ resp'.op = "submit"
         /\ resp'.caller \in Artists
         /\ JobExists(resp'.jid)
         /\ Closed(resp'.jid))
        => /\ resp'.res = InvalidState
           /\ proposals' = proposals
           /\ jobs' = jobs]_vars

C14_Witness ==
  /\ resp.op = "submit"
  /\ resp.res = InvalidState
  /\ JobExists(resp.jid)
  /\ Closed(resp.jid)
  /\ ProposalsOf(resp.jid) = {}

\* C16: once a job's event date has passed, no request made from then on
\* creates a proposal for the job or moves the job to assigned, also while
\* the stored status is still open.
C16_PastJobNotBookable ==
  [][\A j \in 1..Len(jobs) :
       EventPassed(jobs[j]) =>
         /\ ProposalsOf(j)' = ProposalsOf(j)
         /\ (jobs'[j].status = "assigned" => jobs[j].status = "assigned")]_vars

\* C17: a read of a job made after its event date has passed, while its
\* stored status is open, reports the job with status expired.
C17_ReadReportsExpired ==
  [][\A s \in Slots :
       (/\ reqs[s].op = "getJob"
        /\ reqs'[s].pc = "idle"
        /\ JobExists(reqs[s].jid)
        /\ EventPassed(jobs[reqs[s].jid])
        /\ reqs[s].seen = "open")
       => resp'.shown = "expired"]_vars

UniqueReviewPair ==
  \A r, q \in Stored :
    reviews[r].reviewer = reviews[q].reviewer /\ reviews[r].job = reviews[q].job
      => r = q

\* C18: at most one review exists per (reviewer, job) pair, and a create that
\* finds its pair taken by a stored review is answered Conflict and stores
\* nothing, also when two creates of one client run concurrently.
C18_DuplicateReviewConflicts ==
  [][/\ UniqueReviewPair'
     /\ \A s \in Slots :
          (/\ reqs[s].op = "createReview"
           /\ reqs[s].pc = "save"
           /\ reqs'[s].pc # "save"
           /\ ReviewPairTaken(reqs[s].caller, reqs[s].jid))
          => resp'.res = Conflict /\ reviews' = reviews]_vars

MayReview(u, j) ==
  u \in Clients /\ JobExists(j) /\ jobs[j].client = u

\* C19: a review is stored only by a create whose caller was, when the
\* handler read the job, the client of an existing completed job; a create
\* by anyone else is answered Forbidden, a create by the client on a job that
\* is not completed is answered InvalidState, and a refused create changes
\* neither the reviews nor any rating.
C19_ReviewGate ==
  [][/\ \A s \in Slots :
          (reqs[s].pc = "idle" /\ reqs'[s].op = "createReview" /\ reqs'[s].pc = "save")
            => /\ MayReview(reqs'[s].caller, reqs'[s].jid)
               /\ jobs[reqs'[s].jid].status = "completed"
     /\ Len(reviews') > Len(reviews) =>
          \E s \in Slots :
            /\ reqs[s].op = "createReview" /\ reqs[s].pc = "save"
            /\ reviews'[Len(reviews')].reviewer = reqs[s].caller
            /\ reviews'[Len(reviews')].job = reqs[s].jid
     /\ (reqs' = reqs /\ resp' # resp /\ resp'.op = "createReview")
          => /\ ~MayReview(resp'.caller, resp'.jid) => resp'.res = Forbidden
             /\ MayReview(resp'.caller, resp'.jid) =>
                  /\ jobs[resp'.jid].status # "completed"
                  /\ resp'.res = InvalidState
             /\ reviews' = reviews
             /\ rating' = rating]_vars

C19_Witness ==
  /\ resp.op = "createReview"
  /\ resp.res = InvalidState
  /\ Stored # {}
  /\ \A r \in Stored : jobs[reviews[r].job].status = "completed"

\* The score as the weights state it.
CommentPoints(len) ==
  CASE len >= 50 -> 25
    [] len >= 20 /\ len < 50 -> 15
    [] len >= 1 /\ len < 20 -> 10
    [] OTHER -> 0
ImagePoints(n) ==
  CASE n >= 3 -> 15
    [] n >= 1 /\ n < 3 -> 10
    [] OTHER -> 0
WeightedScore(r) ==
  Min(100, (IF r.overall # 0 THEN 30 ELSE 0) + CommentPoints(r.comment)
           + Min(20, 3 * r.breakdown) + ImagePoints(r.images)
           + (IF r.expSet THEN 10 ELSE 0))
Scenario81(r) ==
  r.overall = 5 /\ r.comment = 60 /\ r.breakdown = 2 /\ r.images = 1 /\ r.expSet

\* C20: every stored review's qualityScore is min(100, 30 for the overall
\* rating + 25, 15 or 10 for the comment length + min(20, 3 per breakdown
\* field) + 15 or 10 for the images + 10 for the experience flags), its
\* isHighQuality is true exactly when the score is at least 80, and the
\* review with overall 5, comment length 60, 2 breakdown fields, 1 image and
\* both flags scores 81.
C20_QualityScore ==
  \A r \in Stored :
    /\ reviews[r].qualityScore = WeightedScore(reviews[r])
    /\ reviews[r].isHighQuality <=> reviews[r].qualityScore >= 80
    /\ Scenario81(reviews[r]) => reviews[r].qualityScore = 81

C20_Witness ==
  \E r \in Stored :
    /\ Scenario81(reviews[r])
    /\ reviews[r].qualityScore = 81
    /\ reviews[r].isHighQuality

SameOutcome(a, b) ==
  /\ a.qualityScore = b.qualityScore
  /\ a.isHighQuality = b.isHighQuality
  /\ a.isVerified = b.isVerified
  /\ a.status = b.status

\* C21: for every review document, of every content, verification and
\* status, saved or not yet saved, a second save with no field changed
\* leaves qualityScore, isHighQuality, isVerified and status as the first
\* save left them.
C21_ResaveIdempotent ==
  \A r \in Stored :
    SameOutcome(PreSave(PreSave(reviews[r])), PreSave(reviews[r]))

C21_Witness ==
  \E r \in Stored :
    /\ reviews[r].verificationMethod = "booking_confirmed"
    /\ reviews[r].qualityScore = 81
    /\ reviews[r].isVerified
    /\ reviews[r].status = "published"
    /\ rating[reviews[r].reviewee].count = 1

\* C22: a review created by the create route from a body that carries
\* verificationMethod booking_confirmed is stored verified, and published
\* when its qualityScore is at least 80, submitted otherwise.
C22_CreateVerifies ==
  [][\A s \in Slots :
       (/\ reqs[s].op = "createReview"
        /\ reqs[s].pc = "save"
        /\ Len(reviews') > Len(reviews)
        /\ BodyMethod(reqs[s].body) = "booking_confirmed")
       => LET d == reviews'[Len(reviews')]
          IN /\ d.isVerified
             /\ d.status = IF d.qualityScore >= 80 THEN "published" ELSE "submitted"]_vars

\* C25: every job stored by a successful create has status open, no assigned
\* artist, no selected proposal, an empty received list and the caller as
\* its client, whatever the request body carries.
C25_CreatedJobStartsOpen ==
  [][Len(jobs') > Len(jobs) =>
       LET job == jobs'[Len(jobs')]
       IN /\ resp'.op = "createJob" /\ resp'.res = OK
          /\ job.client = resp'.caller
          /\ job.status = "open"
          /\ job.assignedArtist = NoUser
          /\ job.selectedProposal = NoId
          /\ job.received = << >>]_vars

\* C23: an artist's rating.average and rating.count change only in the write
\* of the rating recomputation, and only for the artist it recomputes; no
\* profile or details update, deactivation, job or review step changes them.
C23_RatingSoleWriter ==
  [][rating' # rating =>
       \E s \in Slots :
         /\ reqs[s].pc = "ratingWrite"
         /\ reqs'[s].pc = "idle"
         /\ \A a \in Artists : rating'[a] # rating[a] => a = reqs[s].artist]_vars

C23_Witness ==
  /\ rating["a1"].count = 1
  /\ profile["a1"].experience = 3
  /\ ~profile["a1"].isActive
  /\ profile["a1"].bio = "hello"

C26_BudgetOrdered ==
  \A j \in 1..Len(jobs) :
    JobExists(j) => jobs[j].budget.max > jobs[j].budget.min

RecordsView(s, j) ==
  /\ reqs[s].op = "getJob" /\ reqs[s].pc = "addView" /\ reqs[s].jid = j
  /\ reqs'[s].pc = "idle"

\* C27: every recordView on a stored job, under any interleaving with other
\* reads, submits, accepts and updates, adds exactly one to the job's views
\* and answers success, also on a job that fails schema validation, and no
\* other step changes views.
C27_NoLostView ==
  [][\A j \in 1..Len(jobs) :
       /\ jobs'[j].views =
            jobs[j].views + Cardinality({s \in Slots : RecordsView(s, j)})
       /\ \A s \in Slots : RecordsView(s, j) => resp'.op = "getJob" /\ resp'.res = OK]_vars

C27_Witness ==
  /\ JobExists(1)
  /\ jobs[1].views = MaxViews
  /\ jobs[1].budget.max <= jobs[1].budget.min
  /\ jobs[1].status = "assigned"
  /\ Len(jobs[1].received) = 1
  /\ Quiescent

\* C28: in every job's viewedBy each artist occurs at most once.
C28_ViewedByDeduplicated ==
  \A j \in 1..Len(jobs) :
    \A e, f \in jobs[j].viewedBy : e.artist = f.artist => e = f

\* C29: every stored proposal's status is one of pending, accepted, rejected,
\* withdrawn.
C29_ProposalStatusInEnum ==
  \A p \in 1..Len(proposals) :
    proposals[p].status \in {"pending", "accepted", "rejected", "withdrawn"}

\* C30: the bulk rejection of accept(p) leaves every other proposal of the
\* job, whatever its status was, rejected with the message 'Another proposal
\* was selected' and the accepting client as responder, and does not touch p.
C30_AcceptRejectsAllOthers ==
  [][\A s \in Slots :
       (reqs[s].op = "accept" /\ reqs[s].pc = "rejectOthers" /\ reqs'[s].pc = "save")
       => /\ \A q \in ProposalsOf(reqs[s].jid) \ {reqs[s].pid} :
               /\ proposals'[q].status = "rejected"
               /\ proposals'[q].respMsg = AutoMessage
               /\ proposals'[q].respBy = reqs[s].caller
          /\ proposals'[reqs[s].pid] = proposals[reqs[s].pid]
          /\ \A q \in 1..Len(proposals) :
               proposals[q].job # reqs[s].jid => proposals'[q] = proposals[q]]_vars

C30_Witness ==
  \E s \in Slots :
    /\ reqs[s].op = "accept" /\ reqs[s].pc = "save"
    /\ proposals[reqs[s].pid].status = "pending"
    /\ \E q \in ProposalsOf(reqs[s].jid) \ {reqs[s].pid} :
         /\ proposals[q].status = "rejected"
         /\ proposals[q].respMsg = AutoMessage
         /\ proposals[q].respBy = reqs[s].caller


\* C31: the save of a withdraw or of a reject changes the targeted proposal
\* and nothing else, the job and every other proposal stay as they were, and
\* a withdraw or reject that is refused changes no job and no proposal.
C31_WithdrawRejectFrame ==
  [][/\ \A s \in Slots :
          (reqs[s].op \in {"withdraw", "reject"} /\ reqs[s].pc = "save"
             /\ reqs'[s] = Idle)
          => /\ jobs' = jobs
             /\ Len(proposals') = Len(proposals)
             /\ \A q \in 1..Len(proposals) :
                  q # reqs[s].pid => proposals'[q] = proposals[q]
             /\ proposals'[reqs[s].pid].status =
                  (IF reqs[s].op = "withdraw" THEN "withdrawn" ELSE "rejected")
     /\ (resp' # resp /\ resp'.op \in {"withdraw", "reject"} /\ resp'.res # OK)
          => (jobs' = jobs /\ proposals' = proposals)]_vars

C31_Witness ==
  /\ resp.op = "withdraw" /\ resp.res = OK
  /\ proposals[resp.pid].status = "withdrawn"
  /\ resp.pid \in { jobs[resp.jid].received[i] : i \in 1..Len(jobs[resp.jid].received) }
  /\ \E q \in ProposalsOf(resp.jid) \ {resp.pid} : proposals[q].status = "pending"

\* C32: a moderation leaves the review published for approve, removed for
\* reject and hidden for hide, whatever the status was, and for any other
\* action with the status the save hook gives the review as it was; it
\* always leaves isModerated set and the moderator, the time and the notes
\* of the call on the review.
C32_ModerateOutcome ==
  [][\A s \in Slots, r \in 1..MaxReviews, a \in Actions, c \in ModerationCalls :
       ModerateWith(s, c.by, r, a, c.text, c.at)
       => /\ reviews'[r].status =
               (IF a = "approve" THEN "published"
                ELSE IF a = "reject" THEN "removed"
                ELSE IF a = "hide" THEN "hidden"
                ELSE PreSave(reviews[r]).status)
          /\ reviews'[r].isModerated
          /\ reviews'[r].moderatedBy = c.by
          /\ reviews'[r].moderatedAt = c.at
          /\ reviews'[r].moderationNotes = c.text]_vars

C32_Witness ==
  /\ \E r \in Stored :
       /\ reviews[r].status = "published"
       /\ reviews[r].isModerated
       /\ reviews[r].moderatedBy = "c2"
       /\ reviews[r].moderationNotes = "checked"
       /\ reviews[r].verificationMethod = NoMethod
       /\ ~reviews[r].isVerified

\* C33: a flag adds one to the review's flags; a published review becomes
\* flagged and every other status is kept; after the flag the review is not
\* among the published reviews of its artist.
C33_FlagOutcome ==
  [][\A s \in Slots, r \in 1..MaxReviews :
       Flag(s, Moderator, r)
       => /\ reviews'[r].flags = reviews[r].flags + 1
          /\ reviews'[r].status =
               (IF reviews[r].status = "published" THEN "flagged"
                ELSE reviews[r].status)
          /\ r \notin { x \in 1..Len(reviews') :
                          /\ ~reviews'[x].gone
                          /\ reviews'[x].reviewee = reviews[r].reviewee
                          /\ reviews'[x].status = "published" }]_vars

C33_Witness ==
  \E r \in Stored :
    /\ reviews[r].flags = 1
    /\ reviews[r].status = "flagged"
    /\ reviews[r].isModerated
    /\ reviews[r].moderatedAt = 2

\* C35: the update, delete and assign routes of a job go on past their
\* access check only for the job's client; every other user, the assigned
\* artist included, is answered 403 at the check, and no step of a handler
\* of these routes that changes a job or a proposal runs for another caller.
OwnerOps == {"updateJob", "deleteJob", "assign"}
C35_OwnerOnly ==
  [][/\ \A s \in Slots :
          (reqs'[s] # reqs[s] /\ (reqs[s].op \in OwnerOps \/ reqs'[s].op \in OwnerOps))
          => LET q == IF reqs[s].op \in OwnerOps THEN reqs[s] ELSE reqs'[s]
             IN q.jid \in 1..Len(jobs) /\ jobs[q.jid].client = q.caller
     /\ (resp' # resp /\ resp'.op \in OwnerOps /\ JobExists(resp'.jid)
           /\ jobs[resp'.jid].client # resp'.caller)
          => (resp'.res = Forbidden /\ jobs' = jobs /\ proposals' = proposals)]_vars

C35_Witness ==
  /\ resp.op \in OwnerOps /\ resp.res = Forbidden
  /\ JobExists(resp.jid)
  /\ jobs[resp.jid].assignedArtist = resp.caller
  /\ ProposalsOf(resp.jid) # {}

\* C36: a step of the accept or of the assign handler sets a job's status to
\* assigned only when the status was open or in_review, and changes the
\* assignedArtist or selectedProposal of no job that was assigned,
\* in_progress, completed, cancelled or expired.
C36_AssignOnlyFromOpen ==
  [][\A s \in Slots :
       (reqs[s].op \in {"accept", "assign"} /\ reqs'[s] # reqs[s]
          /\ reqs[s].jid \in 1..Len(jobs)
          /\ jobs'[reqs[s].jid] # jobs[reqs[s].jid])
       => jobs[reqs[s].jid].status \in {"open", "in_review"}]_vars

\* C37: when no submit and no accept is in flight, a job with status
\* assigned has no pending proposal.
C37_AssignedHasNoPending ==
  InFlight({"submit", "accept"}) = {}
  => \A j \in 1..Len(jobs) :
       jobs[j].status = "assigned"
       => \A p \in ProposalsOf(j) : proposals[p].status # "pending"

\* C39: every stored review that passed the schema's validation has a
\* qualityScore from 50 to 98, equal to the sum of its five parts with
\* three points for each breakdown field: neither the cap at 100 nor the
\* ceiling of 20 on the breakdown part takes effect.
C39_ScoreRange ==
  \A r \in Stored :
    /\ reviews[r].qualityScore >= 50
    /\ reviews[r].qualityScore <= 98
    /\ reviews[r].qualityScore =
         30 + CommentPoints(reviews[r].comment) + 3 * reviews[r].breakdown
            + ImagePoints(reviews[r].images) + 10

C39_Witness ==
  \E r \in Stored :
    /\ reviews[r].qualityScore = 98
    /\ reviews[r].breakdown = BreakdownFields
    /\ reviews[r].images >= 3
    /\ reviews[r].comment >= 50

\* C34: when no login is in flight, an account with five or more counted
\* failed attempts has been locked (lockUntil is set).
C34_LockedAfterFive ==
  (InFlight({"login"}) = {} /\ login.loginAttempts >= LockAfter)
  => login.lockUntil # NoLock

\* C38: a request from an address whose entry is inside its window passes
\* and adds one to the count while the count is under 5, and is answered 429
\* with the entry unchanged once the count is 5; a request from an address
\* with no entry, or with an entry older than the window, passes and starts
\* a window at the present time with count 1; the count never exceeds 5; the
\* entries of the other addresses are left alone, or deleted when expired.
C38_RateLimit ==
  [][\A ip \in IPs :
       AuthRateLimit(ip)
       => LET e == rateLimitStore[ip]
              inWindow == e.count > 0 /\ clock - e.firstAttempt <= WindowTicks
          IN /\ (inWindow /\ e.count >= MaxAttempts)
                  => (resp'.res = TooMany /\ rateLimitStore'[ip] = e)
             /\ (inWindow /\ e.count < MaxAttempts)
                  => /\ resp'.res = Passed
                     /\ rateLimitStore'[ip] = [e EXCEPT !.count = @ + 1]
             /\ ~inWindow
                  => /\ resp'.res = Passed
                     /\ rateLimitStore'[ip] = [count |-> 1, firstAttempt |-> clock]
             /\ rateLimitStore'[ip].count \in 1..MaxAttempts
             /\ \A k \in IPs \ {ip} :
                  \/ rateLimitStore'[k] = rateLimitStore[k]
                  \/ /\ clock - rateLimitStore[k].firstAttempt > WindowTicks
                     /\ rateLimitStore'[k] = NoEntry]_vars

C38_Witness ==
  /\ resp.op = "authRateLimit" /\ resp.res = TooMany /\ resp.caller = "ip1"
  /\ rateLimitStore["ip1"].count = MaxAttempts
  /\ rateLimitStore["ip2"].count = 1
  /\ rateLimitStore["ip2"].firstAttempt > rateLimitStore["ip1"].firstAttempt
====
